---- MODULE Spec2Model ----
(***************************************************************************)
(* Model of the meme-sniper monitor: the TwitterMonitor scheduler          *)
(* (src/unnamed/part_002, second class, and src/utils/twitterMonitor.js),  *)
(* the venue routers SolanaTokenBuyer (src/unnamed/part_000) and           *)
(* BSCTokenBuyer (src/utils/bscTokenBuyer.js), and the ProfitTracker       *)
(* (src/unnamed/part_003).                                                 *)
(*                                                                         *)
(* The routers are pure orchestration around what the venue adapters       *)
(* answer: they are operators over an environment record that fixes the    *)
(* answers of the collaborators for one call, and they return the trace    *)
(* of the call (venues probed, venues executed, result).                   *)
(***************************************************************************)
EXTENDS Integers, Sequences, FiniteSets, Bags, TLC

\* ------------------------------------------------------------------ bounds
\* Largest native balance a wallet read returns, in tenths of a unit
\* (115 is 11.5 SOL / BNB, above both default maximum buy amounts).
MaxBalance10 == 115
\* Posts the target account publishes during a run.
MaxPosts == 2
\* Asynchronous activations (ticks, liquidations) in flight at once.
MaxTasks == 2
\* startMonitoring calls that find the monitor stopped.
MaxStarts == 2
\* Positions recorded in the tracker when it is driven on its own.
MaxPositions == 2
\* Tracker ticks in flight at once.
MaxTrackTicks == 2
\* Words of a text handed to the detector.
MaxWords == 3

\* ------------------------------------------------------- router vocabulary
Chains == {"solana", "bsc"}

ProbeOutcomes == {"available", "unavailable", "throws"}
ExecOutcomes == {"ok", "reverted", "error"}
PoolTypes == {"DLMM", "Dynamic AMM"}
TokensOut == {1000}

\* Asset identifiers handed to the routers, and their characters.
HexChars == {"0", "1", "2", "3", "4", "5", "6", "7", "8", "9",
             "a", "b", "c", "d", "e", "f", "A", "B", "C", "D", "E", "F"}
SolanaAddrs == {"S1", "S2"}
\* Words of the shape of a Solana address, 32 to 44 base58 characters, that
\* are no address: they decode to 24, 33 and 44 bytes.
SolanaLookalikes == {"Sshort", "Slong", "Sones"}
BscAddrs == {"B1", "Bshort", "Bnothex"}
AddrChars(a) ==
  CASE a = "S1" -> <<"S", "o">> \o [i \in 1..40 |-> "1"] \o <<"2">>
    [] a = "S2" -> [i \in 1..32 |-> "1"]
    [] a = "Sshort" -> [i \in 1..32 |-> "z"]
    [] a = "Slong" -> [i \in 1..44 |-> "z"]
    [] a = "Sones" -> [i \in 1..44 |-> "1"]
    [] a = "B1" -> <<"0", "x">> \o [i \in 1..40 |-> IF i % 2 = 0 THEN "A" ELSE "7"]
    [] a = "Bshort" -> <<"0", "x">> \o [i \in 1..39 |-> "a"]
    [] a = "Bnothex" -> <<"0", "x">> \o [i \in 1..40 |-> IF i = 40 THEN "g" ELSE "1"]
    [] OTHER -> <<>>

\* The base58 alphabet of bs58; a character's digit is its place less one.
Base58Alphabet ==
  <<"1", "2", "3", "4", "5", "6", "7", "8", "9",
    "A", "B", "C", "D", "E", "F", "G", "H", "J", "K", "L", "M", "N", "P", "Q",
    "R", "S", "T", "U", "V", "W", "X", "Y", "Z",
    "a", "b", "c", "d", "e", "f", "g", "h", "i", "j", "k", "m", "n", "o", "p",
    "q", "r", "s", "t", "u", "v", "w", "x", "y", "z">>
Base58Chars == {Base58Alphabet[i] : i \in 1..Len(Base58Alphabet)}
Base58Digit(c) == (CHOOSE i \in 1..Len(Base58Alphabet) : Base58Alphabet[i] = c) - 1

\* /\b[1-9A-HJ-NP-Za-km-z]{32,44}\b/ on a word: the whole word or nothing.
MatchesSolanaRegex(a) ==
  LET s == AddrChars(a) IN
    /\ Len(s) \in 32..44
    /\ \A i \in 1..Len(s) : s[i] \in Base58Chars

\* bs58.decode. The number is kept as bytes, lowest first; one more digit
\* multiplies it by 58 and adds the digit.
RECURSIVE MulAdd(_, _)
MulAdd(bytes, carry) ==
  IF bytes = <<>>
  THEN IF carry = 0 THEN <<>> ELSE <<carry % 256>> \o MulAdd(<<>>, carry \div 256)
  ELSE LET x == Head(bytes) * 58 + carry
       IN <<x % 256>> \o MulAdd(Tail(bytes), x \div 256)
RECURSIVE Base58Number(_, _)
Base58Number(s, n) ==
  IF n = 0 THEN <<>> ELSE MulAdd(Base58Number(s, n - 1), Base58Digit(s[n]))
RECURSIVE LeadingOnes(_)
LeadingOnes(s) == IF s # <<>> /\ Head(s) = "1" THEN 1 + LeadingOnes(Tail(s)) ELSE 0
\* The length of the decoded bytes: a zero byte for every leading "1", then
\* the bytes of the number.
DecodedLength(s) == LeadingOnes(s) + Len(Base58Number(s, Len(s)))
DecodedLengths ==
  [a \in SolanaAddrs \cup SolanaLookalikes |-> DecodedLength(AddrChars(a))]

\* isValidSolanaAddress, for a word the pattern matched.
isValidSolanaAddress(a) == DecodedLengths[a] = 32

\* /^0x[a-fA-F0-9]{40}$/
MatchesBscAddress(a) ==
  LET s == AddrChars(a) IN
    /\ Len(s) = 42
    /\ s[1] = "0"
    /\ s[2] = "x"
    /\ \A i \in 3..42 : s[i] \in HexChars

\* config.maxBuyAmountSol and config.maxBuyAmountBnb, at their defaults.
maxBuyAmount(chain) == IF chain = "solana" THEN 10 ELSE 5

\* The answers of the collaborators during one buyToken call. Answers the
\* chain's buyer never asks for are fixed.
BuyEnvs(chain) ==
  LET answers(balanceOk, balances) ==
        [balanceOk : {balanceOk},
         balance10 : balances,
         tokenInfo : IF chain = "bsc" THEN BOOLEAN ELSE {TRUE},
         probe1 : ProbeOutcomes,
         probe2 : ProbeOutcomes,
         probe3 : IF chain = "solana" THEN ProbeOutcomes ELSE {"unavailable"},
         poolType : IF chain = "solana" THEN PoolTypes ELSE {""},
         exec : ExecOutcomes,
         tokensOut : TokensOut]
  IN answers(TRUE, 0..MaxBalance10) \cup answers(FALSE, {0})

\* ExecutionResult as the buyers and sellers build it; "" and 0 stand for
\* an absent field.
Result(success, platform, amount, tokenReceived, quoteOut, error, received) ==
  [success |-> success, platform |-> platform, amount |-> amount,
   tokenReceived |-> tokenReceived, quoteOut |-> quoteOut, error |-> error,
   received |-> received]
Failure(error) == Result(FALSE, "", 0, 0, 0, error, 0)

ExecErrorMessage(o) == IF o = "reverted" THEN "Transaction failed" ELSE "network error"
RpcErrorMessage == "rpc error"

Probe(venue, outcome) == [venue |-> venue, outcome |-> outcome]
Exec(venue, amount, outcome) == [venue |-> venue, amount |-> amount, outcome |-> outcome]

\* The trace of one router call.
Trace(op, chain, address, balance10, probed, executed, result) ==
  [op |-> op, chain |-> chain, address |-> address, balance10 |-> balance10,
   probed |-> probed, executed |-> executed, result |-> result]
NoCall == Trace("none", "", "", -1, <<>>, <<>>, Failure(""))

\* ------------------------------------------------------ SolanaTokenBuyer
checkPumpFun(o) == [exists |-> (o = "available")]
\* Mutant: a Raydium probe that throws counts as a pool found.
checkRaydium_ExistsOnThrow(o) == [exists |-> (o # "unavailable")]
checkRaydium(o) == [exists |-> (o = "available")]
checkMeteora(o, poolType) ==
  IF o = "available" THEN [exists |-> TRUE, poolType |-> poolType]
  ELSE [exists |-> FALSE, poolType |-> ""]

\* Mutant: the Pump.fun adapter drops the error of a failed purchase.
buyOnPumpFun_DropsError(amountSOL, o) ==
  IF o = "ok" THEN Result(TRUE, "Pump.fun", amountSOL, 0, 0, "", 0)
  ELSE Failure("")

buyOnPumpFun(amountSOL, o) ==
  IF o = "ok" THEN Result(TRUE, "Pump.fun", amountSOL, 0, 0, "", 0)
  ELSE Failure(ExecErrorMessage(o))

\* Mutant: the Raydium adapter reports the Pump.fun platform name.
buyOnRaydium_WrongPlatform(amountSOL, o) ==
  IF o = "ok" THEN Result(TRUE, "Pump.fun", amountSOL, 0, 0, "", 0)
  ELSE Failure(ExecErrorMessage(o))

buyOnRaydium(amountSOL, o) ==
  IF o = "ok" THEN Result(TRUE, "Raydium", amountSOL, 0, 0, "", 0)
  ELSE Failure(ExecErrorMessage(o))

buyOnMeteora(amountSOL, poolInfo, o, out) ==
  IF o = "ok" THEN Result(TRUE, "Meteora " \o poolInfo.poolType, amountSOL, 0, out, "", 0)
  ELSE Failure(ExecErrorMessage(o))

\* Math.floor(balance), with the balance in tenths of a unit.
\* Mutant: Math.round in place of Math.floor.
IntegerAmount_Round(balance10) == (balance10 + 5) \div 10
IntegerAmount(balance10) == balance10 \div 10

\* Mutant: an exception of the Pump.fun probe escapes into buyToken's catch.
SolanaBuyToken_ProbeThrowFatal(address, env) ==
  LET T(balance10, probed, executed, result) ==
        Trace("buy", "solana", address, balance10, probed, executed, result)
  IN
  IF ~env.balanceOk THEN T(-1, <<>>, <<>>, Failure(RpcErrorMessage))
  ELSE
    LET balance == env.balance10
        buyAmount == IntegerAmount(balance)
        p1 == <<Probe("Pump.fun", env.probe1)>>
        p2 == p1 \o <<Probe("Meteora", env.probe2)>>
        p3 == p2 \o <<Probe("Raydium", env.probe3)>>
        meteoraCheck == checkMeteora(env.probe2, env.poolType)
    IN
    IF buyAmount < 1 THEN T(balance, <<>>, <<>>, Failure("Insufficient balance"))
    ELSE IF env.probe1 = "throws" THEN T(balance, p1, <<>>, Failure("network error"))
    ELSE IF checkPumpFun(env.probe1).exists
      THEN T(balance, p1, <<Exec("Pump.fun", buyAmount, env.exec)>>,
             buyOnPumpFun(buyAmount, env.exec))
    ELSE IF meteoraCheck.exists
      THEN T(balance, p2, <<Exec("Meteora", buyAmount, env.exec)>>,
             buyOnMeteora(buyAmount, meteoraCheck, env.exec, env.tokensOut))
    ELSE IF checkRaydium(env.probe3).exists
      THEN T(balance, p3, <<Exec("Raydium", buyAmount, env.exec)>>,
             buyOnRaydium(buyAmount, env.exec))
    ELSE T(balance, p3, <<>>, Failure("Token not found on supported DEXs"))

SolanaBuyToken(address, env) ==
  LET T(balance10, probed, executed, result) ==
        Trace("buy", "solana", address, balance10, probed, executed, result)
  IN
  IF ~env.balanceOk THEN T(-1, <<>>, <<>>, Failure(RpcErrorMessage))
  ELSE
    LET balance == env.balance10
        buyAmount == IntegerAmount(balance)
        p1 == <<Probe("Pump.fun", env.probe1)>>
        p2 == p1 \o <<Probe("Meteora", env.probe2)>>
        p3 == p2 \o <<Probe("Raydium", env.probe3)>>
        meteoraCheck == checkMeteora(env.probe2, env.poolType)
    IN
    IF buyAmount < 1 THEN T(balance, <<>>, <<>>, Failure("Insufficient balance"))
    ELSE IF checkPumpFun(env.probe1).exists
      THEN T(balance, p1, <<Exec("Pump.fun", buyAmount, env.exec)>>,
             buyOnPumpFun(buyAmount, env.exec))
    ELSE IF meteoraCheck.exists
      THEN T(balance, p2, <<Exec("Meteora", buyAmount, env.exec)>>,
             buyOnMeteora(buyAmount, meteoraCheck, env.exec, env.tokensOut))
    ELSE IF checkRaydium(env.probe3).exists
      THEN T(balance, p3, <<Exec("Raydium", buyAmount, env.exec)>>,
             buyOnRaydium(buyAmount, env.exec))
    ELSE T(balance, p3, <<>>, Failure("Token not found on supported DEXs"))

\* --------------------------------------------------------- BSCTokenBuyer
\* Mutant: a contract that cannot be read still counts as a token.
getTokenInfo_AlwaysExists(ok) == [exists |-> TRUE]
getTokenInfo(ok) == [exists |-> ok]
checkFourMeme(o) == [isAvailable |-> (o = "available")]
\* Mutant: a failed PancakeSwap quote still counts as liquidity.
checkPancakeSwapLiquidity_Always(o) == [hasLiquidity |-> (o # "throws")]
checkPancakeSwapLiquidity(o) == [hasLiquidity |-> (o = "available")]

buyOnFourMeme(amountBNB, o, out) ==
  IF o = "ok" THEN Result(TRUE, "Four.meme", amountBNB, out, 0, "", 0)
  ELSE Failure(ExecErrorMessage(o))

buyOnPancakeSwap(amountBNB, o, out) ==
  IF o = "ok" THEN Result(TRUE, "PancakeSwap", amountBNB, out, 0, "", 0)
  ELSE Failure(ExecErrorMessage(o))

BscBuyToken(address, env) ==
  LET T(balance10, probed, executed, result) ==
        Trace("buy", "bsc", address, balance10, probed, executed, result)
  IN
  IF ~MatchesBscAddress(address) THEN T(-1, <<>>, <<>>, Failure("Invalid address format"))
  ELSE IF ~env.balanceOk THEN T(-1, <<>>, <<>>, Failure(RpcErrorMessage))
  ELSE
    LET balance == env.balance10
        buyAmount == IntegerAmount(balance)
        p1 == <<Probe("Four.meme", env.probe1)>>
        p2 == p1 \o <<Probe("PancakeSwap", env.probe2)>>
    IN
    IF buyAmount < 1 THEN T(balance, <<>>, <<>>, Failure("Insufficient balance"))
    ELSE IF ~getTokenInfo(env.tokenInfo).exists
      THEN T(balance, <<>>, <<>>, Failure("Invalid token contract"))
    ELSE IF checkFourMeme(env.probe1).isAvailable
      THEN T(balance, p1, <<Exec("Four.meme", buyAmount, env.exec)>>,
             buyOnFourMeme(buyAmount, env.exec, env.tokensOut))
    ELSE IF checkPancakeSwapLiquidity(env.probe2).hasLiquidity
      THEN T(balance, p2, <<Exec("PancakeSwap", buyAmount, env.exec)>>,
             buyOnPancakeSwap(buyAmount, env.exec, env.tokensOut))
    ELSE T(balance, p2, <<>>, Failure("Token not available on supported platforms"))

buyToken(chain, address, env) ==
  IF chain = "solana" THEN SolanaBuyToken(address, env) ELSE BscBuyToken(address, env)

\* ------------------------------------------------------------- liquidate
SolanaSellOutcomes == {"ok", "nopool", "error"}
BscSellOutcomes == {"ok", "reverted", "error"}

sellOnMeteora(tokenAmount, o, poolType, out) ==
  IF o = "ok" THEN Result(TRUE, "Meteora " \o poolType, 0, 0, 0, "", out)
  ELSE IF o = "nopool" THEN Failure("No Meteora pools found")
  ELSE Failure(ExecErrorMessage(o))

sellOnRaydium(tokenAmount) == Failure("Raydium sell not implemented yet")
sellOnPumpFun(tokenAmount) == Failure("Pump.fun sell not implemented yet")

SolanaSellSingleToken(tokenMint, tokenAmount, env) ==
  LET meteoraResult == sellOnMeteora(tokenAmount, env.sell1, env.poolType, env.tokensOut)
      raydiumResult == sellOnRaydium(tokenAmount)
      pumpFunResult == sellOnPumpFun(tokenAmount)
      e1 == <<Exec("Meteora", tokenAmount, env.sell1)>>
      e2 == e1 \o <<Exec("Raydium", tokenAmount, "notimpl")>>
      e3 == e2 \o <<Exec("Pump.fun", tokenAmount, "notimpl")>>
      T(executed, result) == Trace("sell", "solana", tokenMint, -1, <<>>, executed, result)
  IN
  IF meteoraResult.success THEN T(e1, meteoraResult)
  ELSE IF raydiumResult.success THEN T(e2, raydiumResult)
  ELSE IF pumpFunResult.success THEN T(e3, pumpFunResult)
  ELSE T(e3, Failure("No compatible DEX found for selling"))

sellOnFourMeme(tokenAmount, o) ==
  IF o = "ok" THEN Result(TRUE, "Four.meme", 0, 0, 0, "", 1)
  ELSE Failure(ExecErrorMessage(o))

sellOnPancakeSwap(tokenAmount, o) ==
  IF o = "ok" THEN Result(TRUE, "PancakeSwap", 0, 0, 0, "", 1)
  ELSE Failure(ExecErrorMessage(o))

\* Mutant: the PancakeSwap fallback is missing.
BscSellSingleToken_NoFallback(tokenAddress, tokenAmount, env) ==
  LET fourMemeResult == sellOnFourMeme(tokenAmount, env.sell1)
      e1 == <<Exec("Four.meme", tokenAmount, env.sell1)>>
      T(executed, result) == Trace("sell", "bsc", tokenAddress, -1, <<>>, executed, result)
  IN
  IF fourMemeResult.success THEN T(e1, fourMemeResult)
  ELSE T(e1, Failure("No compatible DEX found for selling"))

BscSellSingleToken(tokenAddress, tokenAmount, env) ==
  LET fourMemeResult == sellOnFourMeme(tokenAmount, env.sell1)
      pancakeResult == sellOnPancakeSwap(tokenAmount, env.sell2)
      e1 == <<Exec("Four.meme", tokenAmount, env.sell1)>>
      e2 == e1 \o <<Exec("PancakeSwap", tokenAmount, env.sell2)>>
      T(executed, result) == Trace("sell", "bsc", tokenAddress, -1, <<>>, executed, result)
  IN
  IF fourMemeResult.success THEN T(e1, fourMemeResult)
  ELSE IF pancakeResult.success THEN T(e2, pancakeResult)
  ELSE T(e2, Failure("No compatible DEX found for selling"))

sellSingleToken(chain, address, tokenAmount, env) ==
  IF chain = "solana" THEN SolanaSellSingleToken(address, tokenAmount, env)
  ELSE BscSellSingleToken(address, tokenAmount, env)

\* The answers of the collaborators during one sellSingleToken call.
SellEnvs(chain) ==
  [sell1 : IF chain = "solana" THEN SolanaSellOutcomes ELSE BscSellOutcomes,
   sell2 : IF chain = "solana" THEN {"notimpl"} ELSE BscSellOutcomes,
   poolType : IF chain = "solana" THEN PoolTypes ELSE {""},
   tokensOut : TokensOut]

\* Inputs of the router calls: the asset, the chain and the collaborators'
\* answers.
RouterInput(op, chain, address, env) ==
  [op |-> op, chain |-> chain, address |-> address, env |-> env]
ChainAddrs(chain) == IF chain = "solana" THEN SolanaAddrs ELSE BscAddrs
NoInput == RouterInput("none", "", "", <<>>)

\* ============================================================== the monitor
\* ---------------------------------------------------------- AddressDetector
\* A post's text is a sequence of words; an address is one word.
\* The words posts are made of here, and String.prototype.toLowerCase on them.
Words ==
  {"gm", "http", "pump", "Pump", "sol", "SOL", "prelaunch", "S1", "B1"} \cup SolanaLookalikes
toLowerCase(w) ==
  CASE w = "Pump" -> "pump"
    [] w = "SOL" -> "sol"
    [] w = "S1" -> "s1"
    [] w = "Sshort" -> "sshort"
    [] w = "Slong" -> "slong"
    [] w = "Sones" -> "sones"
    [] w = "B1" -> "b1"
    [] OTHER -> w

\* this.keywordPatterns, in their order. forms: the words the pattern
\* matches between two word boundaries; ignoreCase: the i flag; wordStart:
\* whether the pattern begins with \b (/\launch\b/ does not: \l is the
\* letter l).
KeywordPattern(forms, ignoreCase, wordStart) ==
  [forms |-> forms, ignoreCase |-> ignoreCase, wordStart |-> wordStart]
keywordPatterns ==
  << KeywordPattern({"pump"}, TRUE, TRUE),
     KeywordPattern({"launch"}, TRUE, FALSE),
     KeywordPattern({"token"}, TRUE, TRUE),
     KeywordPattern({"contract"}, TRUE, TRUE),
     KeywordPattern({"mint", "minting", "minted"}, TRUE, TRUE),
     KeywordPattern({"deploy", "deploying", "deployed"}, TRUE, TRUE),
     KeywordPattern({"live"}, TRUE, TRUE),
     KeywordPattern({"CA"}, FALSE, TRUE),
     KeywordPattern({"SOL"}, FALSE, TRUE),
     KeywordPattern({"BSC"}, FALSE, TRUE),
     KeywordPattern({"airdrop"}, TRUE, TRUE),
     KeywordPattern({"presale"}, TRUE, TRUE),
     KeywordPattern({"liquidity"}, TRUE, TRUE),
     KeywordPattern({"DEX"}, FALSE, TRUE) >>
\* The vocabulary, one spelling per term.
Keywords == UNION {keywordPatterns[i].forms : i \in 1..Len(keywordPatterns)}

\* The words that end with a form of a pattern without beginning with it.
EndsWith(w, form) == w = "prelaunch" /\ form = "launch"

\* text.match(pattern) for a one-word text: the matched substrings, as
\* written in the text.
MatchWord(w, pattern) ==
  IF \E form \in pattern.forms :
       IF pattern.ignoreCase THEN toLowerCase(w) = toLowerCase(form) ELSE w = form
  THEN <<w>>
  ELSE IF ~pattern.wordStart /\ \E form \in pattern.forms : EndsWith(w, form)
  THEN <<CHOOSE form \in pattern.forms : EndsWith(w, form)>>
  ELSE <<>>

\* text.match(pattern) || []: the matches of one pattern, in text order.
RECURSIVE MatchAll(_, _)
MatchAll(text, pattern) ==
  IF text = <<>> THEN <<>>
  ELSE MatchWord(Head(text), pattern) \o MatchAll(Tail(text), pattern)

\* foundKeywords after the loop over the first n patterns.
RECURSIVE FoundKeywords(_, _)
FoundKeywords(text, n) ==
  IF n = 0 THEN <<>>
  ELSE FoundKeywords(text, n - 1) \o MatchAll(text, keywordPatterns[n])
\* A text that is not a string (tweet.text truthy, without a match method):
\* analyzeTweet throws a TypeError on it.
NotAString == <<"[object Object]">>
PostTexts == {<<"gm", "http">>, <<"pump", "S1", "Sshort", "B1", "pump">>, NotAString}
analyzeTweetThrows(tweetText) == tweetText = NotAString

\* Mutant: every match of the pattern is taken for an address.
extractSolanaAddresses_Unfiltered(text) == SelectSeq(text, MatchesSolanaRegex)

extractSolanaAddresses(text) ==
  SelectSeq(SelectSeq(text, MatchesSolanaRegex), isValidSolanaAddress)
extractBSCAddresses(text) == SelectSeq(text, LAMBDA w : MatchesBscAddress(w))
RECURSIVE Dedup(_)
Dedup(ws) ==
  IF ws = <<>> THEN <<>>
  ELSE LET init == Dedup(SubSeq(ws, 1, Len(ws) - 1))
           last == ws[Len(ws)]
       IN IF \E i \in 1..Len(init) : init[i] = last THEN init ELSE Append(init, last)
\* [...new Set(foundKeywords)]
containsCryptoKeywords(text) == Dedup(FoundKeywords(text, Len(keywordPatterns)))
extractUrls(text) == SelectSeq(text, LAMBDA w : w = "http")

\* Mutant: a link counts as crypto content.
analyzeTweet_LinksCount(tweetText) ==
  [hasCryptoContent |->
     \/ Len(extractSolanaAddresses(tweetText)) > 0
     \/ Len(extractBSCAddresses(tweetText)) > 0
     \/ Len(containsCryptoKeywords(tweetText)) > 0
     \/ Len(extractUrls(tweetText)) > 0,
   solanaAddresses |-> extractSolanaAddresses(tweetText),
   bscAddresses |-> extractBSCAddresses(tweetText),
   keywords |-> containsCryptoKeywords(tweetText),
   urls |-> extractUrls(tweetText)]

\* Mutant: every post counts as crypto content.
analyzeTweet_AlwaysCrypto(tweetText) ==
  [hasCryptoContent |-> TRUE,
   solanaAddresses |-> extractSolanaAddresses(tweetText),
   bscAddresses |-> extractBSCAddresses(tweetText),
   keywords |-> containsCryptoKeywords(tweetText),
   urls |-> extractUrls(tweetText)]
analyzeTweet(tweetText) ==
  LET solanaAddresses == extractSolanaAddresses(tweetText)
      bscAddresses == extractBSCAddresses(tweetText)
      keywords == containsCryptoKeywords(tweetText)
      urls == extractUrls(tweetText)
  IN [hasCryptoContent |->
        Len(solanaAddresses) > 0 \/ Len(bscAddresses) > 0 \/ Len(keywords) > 0,
      solanaAddresses |-> solanaAddresses,
      bscAddresses |-> bscAddresses,
      keywords |-> keywords,
      urls |-> urls]

\* The posts a fetch asks for (getTweets(targetUsername, 5)).
FetchLimit == 5

Elems(seq) == {seq[i] : i \in 1..Len(seq)}

RECURSIVE Reverse(_)
Reverse(sq) == IF sq = <<>> THEN <<>> ELSE Append(Reverse(Tail(sq)), Head(sq))

\* The answers of the collaborators to the buyToken calls of the monitor: a
\* full or an empty wallet, the first two venues of the chain.
MonitorBuyEnvs(chain) ==
  {env \in BuyEnvs(chain) :
     /\ env.balanceOk
     /\ env.balance10 \in {0, MaxBalance10}
     /\ env.tokenInfo
     /\ env.probe1 \in {"available", "unavailable"}
     /\ env.probe2 = (IF chain = "solana" THEN "available" ELSE "unavailable")
     /\ env.probe3 = "unavailable"
     /\ env.poolType # "Dynamic AMM"
     /\ env.exec \in {"ok", "reverted"}}
\* The results buyToken returns to the monitor for an asset.
BuyResults ==
  [chain \in Chains |->
    [address \in ChainAddrs(chain) |->
      {buyToken(chain, address, env).result : env \in MonitorBuyEnvs(chain)}]]

VARIABLES
  rin,              \* router call under test: its inputs
  call,             \* router call under test: its trace
  config,           \* autoBuyEnabled, webhookUrl
  isRunning,        \* TwitterMonitor.isRunning
  intervalId,       \* TwitterMonitor.intervalId, 0 when unset
  timers,           \* interval timers created and not cleared
  starts,           \* startMonitoring calls that started the monitor
  keyListeners,     \* stdin 'data' listeners registered
  processedTweets,  \* TwitterMonitor.processedTweets
  texts,            \* the account's posts, oldest first; post i has text texts[i]
  abandoned,        \* posts a tick fetched and was not through with when it ended
  threw,            \* per post, how often its processing threw
  tasks,            \* bag of asynchronous activations, each where it is suspended
  alerted,          \* displayAlert calls per post
  dispatched,       \* buyToken calls per post and address
  webhooked,        \* sendWebhookNotification calls per post
  purchasedTokens,  \* ProfitTracker.purchasedTokens
  isTracking,       \* ProfitTracker.isTracking
  trackingInterval, \* ProfitTracker.trackingInterval is set
  trackingTimers,   \* interval timers the tracker created and has not cleared
  lastCall,         \* the monitor's latest finished call of a buyer: what it was, how it ended
  trackTicks,       \* bag of tracker ticks, each at the position whose price it awaits
  lastPrice,        \* the latest answer of the price source: for which position, what price
  detectorText,     \* detector under test: the text handed to analyzeTweet
  detectorResult,   \* detector under test: what analyzeTweet returned
  proc              \* the process under test: where main is, its environment, its exit

routerVars == <<rin, call>>
schedVars == <<isRunning, intervalId, timers, starts, keyListeners>>
trackerVars == <<purchasedTokens, isTracking, trackingInterval, trackingTimers>>
countVars == <<alerted, dispatched, webhooked, lastCall>>
\* State of the parts that are driven on their own: the tracker's ticks, the
\* detector.
tickVars == <<trackTicks, lastPrice>>
detectorVars == <<detectorText, detectorResult>>
unitVars == <<tickVars, detectorVars, proc>>
monitorVars == <<config, isRunning, intervalId, timers, starts, keyListeners,
                 processedTweets, texts, abandoned, threw, tasks, alerted, dispatched, webhooked,
                 purchasedTokens, isTracking, trackingInterval, trackingTimers, lastCall,
                 trackTicks, lastPrice, proc>>
\* The monitor's own state.
monitorState == <<config, isRunning, intervalId, timers, starts, keyListeners,
                  processedTweets, texts, abandoned, threw, tasks, countVars, trackerVars>>
vars == <<rin, call, config, isRunning, intervalId, timers, starts, keyListeners,
          processedTweets, texts, abandoned, threw, tasks, alerted, dispatched, webhooked,
          purchasedTokens, isTracking, trackingInterval, trackingTimers, lastCall,
          trackTicks, lastPrice, detectorText, detectorResult, proc>>

PostIds == 1..MaxPosts
AllAddrs == SolanaAddrs \cup SolanaLookalikes \cup BscAddrs

\* An activation: a tick of checkForNewTweets (started by startMonitoring or
\* by the interval timer) or a liquidation, suspended at pc.
\* A tick awaited by startMonitoring carries the ordinal of its start, which
\* names the timer that start goes on to create.
Task(kind, pc, start) ==
  [kind |-> kind, pc |-> pc, start |-> start, fetched |-> <<>>, rest |-> <<>>, cur |-> 0,
   solQ |-> <<>>, bscQ |-> <<>>, events |-> <<>>, held |-> {}]
TickKinds == {"start", "timer"}
IsTick(t) == t.kind \in TickKinds
Active == BagToSet(tasks)
InFlight == BagCardinality(tasks)
Spawn(t, n) == tasks (+) [x \in {t} |-> n]
Remove(t) == tasks (-) SetToBag({t})
Replace(t, u) == Remove(t) (+) SetToBag({u})

\* The latest call of a buyer the monitor has seen return.
\* buyToken: the chain, the address and result.success.
\* sellAllTokensToSOL / sellAllTokensToBNB: the chain, result.success, the
\* addresses of the positions open on the chain when the key was pressed, the
\* addresses sellSingleToken was called for, and those whose sale failed.
NoCallYet == [op |-> "none"]
\* analyzeTweet has not been called.
NotAnalyzed == [done |-> FALSE, value |-> <<>>]
\* No price query has been answered.
NoPriceYet == [index |-> 0, price |-> 0]
BuyCall(chain, address, success) ==
  [op |-> "buy", chain |-> chain, address |-> address, success |-> success]
SellCall(chain, success, open, sold, failed) ==
  [op |-> "sell", chain |-> chain, success |-> success, open |-> open, sold |-> sold,
   failed |-> failed]

\* analyzeTweet is not under test.
DetectorIdle == detectorText = <<>> /\ detectorResult = NotAnalyzed

\* main is not under test: the monitor is constructed and initialized.
NoProcess ==
  [pc |-> "none", env |-> <<>>, exitCode |-> -1, cause |-> "", started |-> FALSE,
   stopped |-> FALSE]
MainIdle == proc = NoProcess

\* ------------------------------------------------------------ constructor
MonitorInit ==
  /\ isRunning = FALSE
  /\ intervalId = 0
  /\ timers = {}
  /\ starts = 0
  /\ keyListeners = 0
  /\ processedTweets = {}
  /\ texts = <<>>
  /\ abandoned = {}
  /\ threw = [p \in PostIds |-> 0]
  /\ tasks = EmptyBag
  /\ alerted = [p \in PostIds |-> 0]
  /\ dispatched = [p \in PostIds |-> [a \in AllAddrs |-> 0]]
  /\ webhooked = [p \in PostIds |-> 0]
  /\ purchasedTokens = <<>>
  /\ isTracking = FALSE
  /\ trackingInterval = FALSE
  /\ trackingTimers = 0
  /\ lastCall = NoCallYet
  /\ trackTicks = EmptyBag
  /\ lastPrice = NoPriceYet

Init ==
  /\ rin = NoInput
  /\ call = NoCall
  /\ config \in [autoBuyEnabled : BOOLEAN, webhookUrl : BOOLEAN]
  /\ MonitorInit
  /\ DetectorIdle
  /\ MainIdle

\* validateConfig demands both mnemonics when auto-buy is enabled, so the
\* constructor creates both buyers exactly then.
solanaBuyer == config.autoBuyEnabled
bscBuyer == config.autoBuyEnabled

\* The feed collaborator: the timelines the account can show at the next
\* fetch, given the one it showed last. Posts are never removed.
Timelines(seen) ==
  {seen} \cup
  UNION {{seen \o new : new \in [1..k -> PostTexts]} : k \in 1..(MaxPosts - Len(seen))}

\* What getTweets yields of a timeline: newest first, at most FetchLimit posts.
LatestTweets(timeline) ==
  LET n == Len(timeline)
      k == IF n < FetchLimit THEN n ELSE FetchLimit
  IN [i \in 1..k |-> n + 1 - i]

\* ------------------------------------------------------------ ProfitTracker
\* What autoBuyTokens hands to addPurchase after a successful buyToken:
\* tokensReceived is quote?.outAmount || tokenReceived on Solana,
\* tokenReceived on BSC; 0 stands for an absent quantity.
TokenInfo(chain, address, buyResult) ==
  [chain |-> chain, tokenAddress |-> address,
   platform |-> buyResult.platform, amount |-> buyResult.amount,
   tokensReceived |-> IF chain = "solana" /\ buyResult.quoteOut # 0
                      THEN buyResult.quoteOut
                      ELSE buyResult.tokenReceived]

\* Mutant: the position is entered twice.
addPurchase_Twice(tokens, tokenInfo) ==
  LET position == [chain |-> tokenInfo.chain,
                   tokenAddress |-> tokenInfo.tokenAddress,
                   platform |-> tokenInfo.platform,
                   amount |-> tokenInfo.amount,
                   tokensReceived |-> tokenInfo.tokensReceived,
                   currentValue |-> 0,
                   profitLoss |-> 0]
  IN Append(Append(tokens, position), position)

\* Mutant: startTracking arms a timer whether or not one is running.
startTracking_Unguarded(tracking, n) == n + 1

\* startTracking: the timers alive after it; a no-op when already tracking.
startTracking(tracking, n) == IF tracking THEN n ELSE n + 1

\* stopTracking: clearInterval of the timer trackingInterval holds, if any.
stopTracking(interval, n) == IF interval THEN n - 1 ELSE n

\* this.purchasedTokens.push(purchase)
addPurchase(tokens, tokenInfo) ==
  Append(tokens, [chain |-> tokenInfo.chain,
                  tokenAddress |-> tokenInfo.tokenAddress,
                  platform |-> tokenInfo.platform,
                  amount |-> tokenInfo.amount,
                  tokensReceived |-> tokenInfo.tokensReceived,
                  currentValue |-> 0,
                  profitLoss |-> 0])

\* ---------------------------------------------------------- TwitterMonitor
Event(kind, post, address) == [kind |-> kind, post |-> post, address |-> address]

\* Mutant: the ledger keeps the latest identifier only.
MarkProcessed_KeepsLatest(processed, id) == {id}

\* this.processedTweets.add(tweet.id)
\* Mutant: the identifier is never added.
MarkProcessed_Forgets(processed, id) == processed
MarkProcessed(processed, id) == processed \cup {id}

\* tweets.reverse(): the order the loop takes the fetched posts in.
\* Mutant: the loop runs in feed order.
ProcessingOrder_FeedOrder(tweets) == tweets
ProcessingOrder(tweets) == Reverse(tweets)

\* The statements after a post's processTweet returned a result: the webhook
\* if configured, else the one-second delay.
AfterProcess(t) ==
  IF config.webhookUrl THEN [t EXCEPT !.pc = "webhook"] ELSE [t EXCEPT !.pc = "delay"]

\* The for loop of checkForNewTweets from its current post up to the next
\* suspension (a buyToken call, the webhook, the delay) or to its end. Posts
\* in the ledger and posts without crypto content take no suspension.
\* m carries the ledger and the counters the loop updates.
\* this.detector.analyzeTweet(tweet.text) for each text a post can have; a
\* text it throws on has no analysis.
Analyses ==
  [text \in PostTexts |-> IF analyzeTweetThrows(text) THEN <<>> ELSE analyzeTweet(text)]

\* Mutant: the post is marked after it has been analysed, so a throw of the
\* analysis leaves the ledger without it.
Thrown_Unmarked(m, marked, tweet) == [m EXCEPT !.threw[tweet] = @ + 1]

\* The ledger and the counters when an error leaves processTweet:
\* processedTweets.add(tweet.id) has run before analyzeTweet.
Thrown(m, marked, tweet) == [marked EXCEPT !.threw[tweet] = @ + 1]

RECURSIVE RunLoop(_, _, _)
RunLoop(t, m, timeline) ==
  IF t.rest = <<>> THEN [task |-> [t EXCEPT !.pc = "return"], m |-> m]
  ELSE
    LET tweet == Head(t.rest)
        next == [t EXCEPT !.rest = Tail(t.rest), !.cur = tweet]
        analysis == Analyses[timeline[tweet]]
        solQ == IF solanaBuyer THEN analysis.solanaAddresses ELSE <<>>
        bscQ == IF bscBuyer THEN analysis.bscAddresses ELSE <<>>
        first == IF solQ # <<>> THEN Head(solQ) ELSE Head(bscQ)
        marked == [m EXCEPT !.processed = MarkProcessed(m.processed, tweet)]
        shown == [marked EXCEPT !.alerted[tweet] = @ + 1]
    IN
    IF tweet \in m.processed THEN RunLoop(next, m, timeline)
    ELSE IF analyzeTweetThrows(timeline[tweet])
      THEN \* the error leaves processTweet and the loop for the catch of
           \* checkForNewTweets, which finds no 401 / forbidden in it
           [task |-> [t EXCEPT !.pc = "return"], m |-> Thrown(m, marked, tweet)]
    ELSE IF ~analysis.hasCryptoContent THEN RunLoop(next, marked, timeline)
    ELSE IF config.autoBuyEnabled /\ (solQ # <<>> \/ bscQ # <<>>)
      THEN [task |-> [next EXCEPT !.pc = "buy", !.solQ = solQ, !.bscQ = bscQ,
                        !.events = t.events \o <<Event("alert", tweet, ""),
                                                 Event("buy", tweet, first)>>],
            m |-> [shown EXCEPT !.dispatched[tweet][first] = @ + 1]]
    ELSE [task |-> [AfterProcess(next) EXCEPT
                      !.events = Append(t.events, Event("alert", tweet, ""))],
          m |-> shown]

Ledger ==
  [processed |-> processedTweets, alerted |-> alerted, dispatched |-> dispatched,
   threw |-> threw]

\* Mutant: startMonitoring sets no interval after its immediate tick.
Return_NoTimer(t) ==
  /\ tasks' = Remove(t)
  /\ UNCHANGED <<intervalId, timers>>

\* The end of checkForNewTweets. The tick awaited by startMonitoring is
\* followed, with no suspension, by setInterval.
Return(t) ==
  /\ tasks' = Remove(t)
  /\ IF t.kind = "start"
     THEN /\ intervalId' = t.start
          /\ timers' = timers \cup {t.start}
     ELSE UNCHANGED <<intervalId, timers>>

\* Task t resumes the loop at its current post.
Continue(t, from, timeline) ==
  LET r == RunLoop(from, Ledger, timeline) IN
  /\ processedTweets' = r.m.processed
  /\ alerted' = r.m.alerted
  /\ dispatched' = r.m.dispatched
  /\ threw' = r.m.threw
  /\ IF r.task.pc = "return"
     THEN /\ Return(t)
          /\ abandoned' = abandoned \cup (Elems(r.task.rest) \ r.m.processed)
     ELSE /\ tasks' = Replace(t, r.task)
          /\ UNCHANGED <<intervalId, timers, abandoned>>

\* if (this.isRunning) { warn; return }
\* Mutant: the guard is missing.
AlreadyRunning_Unguarded(running) == FALSE
AlreadyRunning(running) == running

\* What a startMonitoring call that starts the monitor does before its first
\* await: the flag, the key listener, the first tick.
MonitorStarts ==
  /\ isRunning' = TRUE
  /\ starts' = starts + 1
  /\ keyListeners' = keyListeners + 1
  /\ tasks' = Spawn(Task("start", "fetch", starts + 1), 1)
  /\ UNCHANGED <<config, intervalId, timers, processedTweets, texts, abandoned, threw,
                 countVars, trackerVars>>

startMonitoring ==
  \/ \* "Monitor is already running": a warning, and nothing else
     /\ AlreadyRunning(isRunning)
     /\ UNCHANGED vars
  \/ /\ ~AlreadyRunning(isRunning)
     /\ starts < MaxStarts
     /\ InFlight < MaxTasks
     /\ MonitorStarts
     /\ UNCHANGED <<routerVars, unitVars>>

\* The setInterval callback of a live timer.
TimerFire ==
  /\ timers # {}
  /\ isRunning
  /\ InFlight < MaxTasks
  /\ tasks' = Spawn(Task("timer", "fetch", 0), 1)
  /\ UNCHANGED <<routerVars, unitVars, config, schedVars, processedTweets, texts, abandoned, threw, countVars,
                 trackerVars>>

\* Mutant: a fetch without posts raises an alert.
NoTweets_Alerts(t) ==
  /\ Return(t)
  /\ alerted' = [alerted EXCEPT ![1] = @ + 1]
  /\ UNCHANGED <<processedTweets, dispatched, texts, abandoned, threw>>

\* if (tweets.length === 0) return: the account has no posts, or the fetch
\* failed with an error without 401 / 403; the tick ends.
NoTweets(t) ==
  /\ Return(t)
  /\ UNCHANGED <<processedTweets, alerted, dispatched, texts, abandoned, threw>>

\* The fetch gave posts: the loop starts on them, oldest first.
TweetsFetched(t) ==
  \E timeline \in Timelines(texts) :
    /\ timeline # <<>>
    /\ texts' = timeline
    /\ Continue(t, [t EXCEPT !.fetched = LatestTweets(timeline),
                             !.rest = ProcessingOrder(LatestTweets(timeline))],
                timeline)

\* fetchLatestTweets resolves, and checkForNewTweets runs up to its next
\* suspension.
FetchDone(t) ==
  /\ IsTick(t)
  /\ t.pc = "fetch"
  /\ \/ TweetsFetched(t)
     \/ NoTweets(t)
     \/ \* an authentication error: fetchLatestTweets awaits initialize()
        /\ tasks' = Replace(t, [t EXCEPT !.pc = "relogin"])
        /\ UNCHANGED <<intervalId, timers, processedTweets, alerted, dispatched, texts, abandoned, threw>>
  /\ UNCHANGED <<routerVars, unitVars, config, isRunning, starts, keyListeners, webhooked, lastCall,
                 trackerVars>>

\* Mutant: after the re-login the tick fetches again.
ReloginDone_FetchesAgain(t) ==
  /\ IsTick(t)
  /\ t.pc = "relogin"
  /\ tasks' = Replace(t, [t EXCEPT !.pc = "fetch"])
  /\ UNCHANGED <<routerVars, unitVars, config, schedVars, processedTweets, texts, abandoned, threw,
                 countVars, trackerVars>>

\* initialize() of the re-login resolves, with either answer;
\* fetchLatestTweets returns [] and the tick ends.
ReloginDone(t) ==
  /\ IsTick(t)
  /\ t.pc = "relogin"
  /\ Return(t)
  /\ UNCHANGED <<routerVars, unitVars, config, isRunning, starts, keyListeners,
                 processedTweets, texts, abandoned, threw, countVars, trackerVars>>

\* buyToken of the address at the head of the queue resolves; autoBuyTokens
\* records a success and calls buyToken for the next address, if any.
BuyReturns(t) ==
  /\ IsTick(t)
  /\ t.pc = "buy"
  /\ LET chain == IF t.solQ # <<>> THEN "solana" ELSE "bsc"
         address == IF t.solQ # <<>> THEN Head(t.solQ) ELSE Head(t.bscQ)
         solQ == IF t.solQ # <<>> THEN Tail(t.solQ) ELSE <<>>
         bscQ == IF t.solQ # <<>> THEN t.bscQ ELSE Tail(t.bscQ)
         more == solQ # <<>> \/ bscQ # <<>>
         nextAddr == IF solQ # <<>> THEN Head(solQ) ELSE Head(bscQ)
         popped == [t EXCEPT !.solQ = solQ, !.bscQ = bscQ]
     IN
     /\ \E buyResult \in BuyResults[chain][address] :
          /\ lastCall' = BuyCall(chain, address, buyResult.success)
          /\ IF buyResult.success
             THEN /\ purchasedTokens' =
                       addPurchase(purchasedTokens, TokenInfo(chain, address, buyResult))
                  /\ isTracking' = TRUE
                  /\ trackingInterval' = TRUE
                  /\ trackingTimers' = startTracking(isTracking, trackingTimers)
             ELSE UNCHANGED trackerVars
     /\ IF more
        THEN /\ tasks' = Replace(t, [popped EXCEPT
                                       !.events = Append(t.events, Event("buy", t.cur, nextAddr))])
             /\ dispatched' = [dispatched EXCEPT ![t.cur][nextAddr] = @ + 1]
        ELSE /\ tasks' = Replace(t, AfterProcess(popped))
             /\ UNCHANGED dispatched
  /\ UNCHANGED <<routerVars, unitVars, config, schedVars, processedTweets, texts, abandoned, threw, alerted,
                 webhooked>>

\* sendWebhookNotification resolves (delivered or not), the delay starts.
WebhookDone(t) ==
  /\ IsTick(t)
  /\ t.pc = "webhook"
  /\ tasks' = Replace(t, [t EXCEPT !.pc = "delay"])
  /\ webhooked' = [webhooked EXCEPT ![t.cur] = @ + 1]
  /\ UNCHANGED <<routerVars, unitVars, config, schedVars, processedTweets, texts, abandoned, threw, alerted,
                 dispatched, lastCall, trackerVars>>

\* The one-second delay after a post with crypto content elapses and the
\* loop goes on.
DelayDone(t) ==
  /\ IsTick(t)
  /\ t.pc = "delay"
  /\ Continue(t, t, texts)
  /\ UNCHANGED <<routerVars, unitVars, config, isRunning, starts, keyListeners, texts,
                 webhooked, lastCall, trackerVars>>

\* Mutant: stopping also drops the activations in flight.
stopMonitoring_AbortsTicks ==
  /\ intervalId' = 0
  /\ timers' = timers \ {intervalId}
  /\ isRunning' = FALSE
  /\ isTracking' = FALSE
  /\ trackingInterval' = FALSE
  /\ trackingTimers' = stopTracking(trackingInterval, trackingTimers)
  /\ UNCHANGED <<routerVars, unitVars, config, starts, keyListeners, processedTweets, texts, abandoned, threw,
                 countVars, purchasedTokens>>
  /\ tasks' = EmptyBag

\* What stopMonitoring does; it runs to its end without an await.
MonitorStops ==
  /\ intervalId' = 0
  /\ timers' = timers \ {intervalId}
  /\ isRunning' = FALSE
  /\ isTracking' = FALSE
  /\ trackingInterval' = FALSE
  /\ trackingTimers' = stopTracking(trackingInterval, trackingTimers)
  /\ UNCHANGED <<config, starts, keyListeners, processedTweets, texts, abandoned, threw,
                 tasks, countVars, purchasedTokens>>

stopMonitoring ==
  /\ MonitorStops
  /\ UNCHANGED <<routerVars, unitVars>>

\* The addresses of the positions open on a chain.
OpenOn(tokens, chain) ==
  {tokens[i].tokenAddress : i \in {k \in 1..Len(tokens) : tokens[k].chain = chain}}

\* Mutant: the liquidation empties the tracker.
WithoutChain_Everything(tokens, chain) == <<>>

\* this.profitTracker.purchasedTokens.filter(token => token.chain !== chain)
WithoutChain(tokens, chain) == SelectSeq(tokens, LAMBDA token : token.chain # chain)

\* The operator presses "s": every registered listener runs; with a Solana
\* buyer, each starts sellAllSolanaTokens, which awaits sellAllTokensToSOL.
\* The wallet's token accounts the routine goes through are those of the
\* positions open at that time.
KeyS ==
  /\ keyListeners >= 1
  /\ solanaBuyer
  /\ InFlight + keyListeners <= MaxTasks
  /\ tasks' = Spawn([Task("sellSolana", "selling", 0) EXCEPT
                       !.held = OpenOn(purchasedTokens, "solana")], keyListeners)
  /\ UNCHANGED <<routerVars, unitVars, config, schedVars, processedTweets, texts, abandoned, threw, countVars,
                 trackerVars>>

\* sellAllTokensToSOL resolves. It has called sellSingleToken for each token
\* account, whatever each sale gave, and reports success; the Solana
\* positions then leave the tracker. When reading the token accounts threw,
\* it reports failure and the tracker is left alone.
SellSolanaDone(t) ==
  /\ t.kind = "sellSolana"
  /\ t.pc = "selling"
  /\ tasks' = Remove(t)
  /\ \/ \E failed \in SUBSET t.held :
          /\ lastCall' = SellCall("solana", TRUE, t.held, t.held, failed)
          /\ purchasedTokens' = WithoutChain(purchasedTokens, "solana")
     \/ /\ lastCall' = SellCall("solana", FALSE, t.held, {}, {})
        /\ UNCHANGED purchasedTokens
  /\ UNCHANGED <<routerVars, unitVars, config, schedVars, processedTweets, texts, abandoned, threw, alerted,
                 dispatched, webhooked, isTracking, trackingInterval,
                 trackingTimers>>

\* The operator presses "b": getKnownTokens() is empty, so sellAllTokensToBNB
\* resolves with success without any sellSingleToken call, and the BSC
\* positions leave the tracker.
KeyB ==
  /\ keyListeners >= 1
  /\ bscBuyer
  /\ lastCall' = SellCall("bsc", TRUE, OpenOn(purchasedTokens, "bsc"), {}, {})
  /\ purchasedTokens' = WithoutChain(purchasedTokens, "bsc")
  /\ UNCHANGED <<routerVars, unitVars, config, schedVars, processedTweets, texts, abandoned, threw, tasks,
                 alerted, dispatched, webhooked, isTracking, trackingInterval,
                 trackingTimers>>

Next ==
  \/ startMonitoring
  \/ TimerFire
  \/ stopMonitoring
  \/ KeyS
  \/ KeyB
  \/ \E t \in Active : FetchDone(t)
  \/ \E t \in Active : ReloginDone(t)
  \/ \E t \in Active : BuyReturns(t)
  \/ \E t \in Active : WebhookDone(t)
  \/ \E t \in Active : DelayDone(t)
  \/ \E t \in Active : SellSolanaDone(t)

Spec == Init /\ [][Next]_vars

\* The monitor while it is left running: started, never stopped, no key
\* pressed.
RunningNext ==
  \/ startMonitoring
  \/ TimerFire
  \/ \E t \in Active : FetchDone(t)
  \/ \E t \in Active : ReloginDone(t)
  \/ \E t \in Active : BuyReturns(t)
  \/ \E t \in Active : WebhookDone(t)
  \/ \E t \in Active : DelayDone(t)

\* The scheduling the liveness of the monitor rests on: startMonitoring is
\* called, a live timer fires again and again, a fetch gives posts again and
\* again (the case the property is about), and every awaited call settles.
Fairness ==
  /\ WF_vars(startMonitoring /\ isRunning')
  /\ SF_vars(TimerFire)
  /\ SF_vars(\E t \in Active : FetchDone(t) /\ TweetsFetched(t))
  /\ WF_vars(\E t \in Active : ReloginDone(t))
  /\ WF_vars(\E t \in Active : BuyReturns(t))
  /\ WF_vars(\E t \in Active : WebhookDone(t))
  /\ WF_vars(\E t \in Active : DelayDone(t))

SpecLive == Init /\ [][RunningNext]_vars /\ Fairness

\* ------------------------------------------- the routers, called directly
RouterInit ==
  /\ \E chain \in Chains : \E address \in ChainAddrs(chain) :
       \/ \E env \in BuyEnvs(chain) : rin = RouterInput("buy", chain, address, env)
       \/ \E env \in SellEnvs(chain) : rin = RouterInput("sell", chain, address, env)
  /\ call = NoCall
  /\ config = [autoBuyEnabled |-> TRUE, webhookUrl |-> FALSE]
  /\ MonitorInit
  /\ DetectorIdle
  /\ MainIdle

RouterBuy ==
  /\ call = NoCall
  /\ rin.op = "buy"
  /\ call' = buyToken(rin.chain, rin.address, rin.env)
  /\ UNCHANGED <<rin, monitorVars, detectorVars>>

RouterSell ==
  /\ call = NoCall
  /\ rin.op = "sell"
  /\ call' = sellSingleToken(rin.chain, rin.address, 1, rin.env)
  /\ UNCHANGED <<rin, monitorVars, detectorVars>>

RouterNext == RouterBuy \/ RouterSell

SpecRouter == RouterInit /\ [][RouterNext]_vars

\* ------------------------------------- the tracker, with its own timer
\* Prices are in thousandths of the chain's coin per token, and so are
\* currentValue and profitLoss; amount is in whole coins.
NoPrice == 0
Prices == {1, 2}
\* getBSCTokenPrice returns 0.001 without awaiting anything.
BscMockPrice == 1
Milli == 1000

\* Mutant: a failed price query resets the position's values.
Revalue_ResetsOnNoPrice(purchase, price) ==
  [purchase EXCEPT !.currentValue = purchase.tokensReceived * price,
                   !.profitLoss = purchase.tokensReceived * price - purchase.amount * Milli]

\* The body of updateProfitLoss's loop for one position: with a price,
\* currentValue = tokensReceived * price and profitLoss = currentValue - amount.
Revalue(purchase, price) ==
  IF price = NoPrice THEN purchase
  ELSE [purchase EXCEPT !.currentValue = purchase.tokensReceived * price,
                        !.profitLoss = purchase.tokensReceived * price - purchase.amount * Milli]

\* A tracker tick: the index of the position it is at, and the positions for
\* which it got no price and those it revalued.
TrackTick(index) == [index |-> index, unpriced |-> {}, priced |-> {}]
TrackTicksInFlight == BagCardinality(trackTicks)

\* updateProfitLoss from position tick.index on, up to the next price query
\* that is awaited (a Solana position) or to the end of purchasedTokens.
RECURSIVE updateProfitLoss(_, _)
updateProfitLoss(tokens, tick) ==
  IF tick.index > Len(tokens) THEN [tokens |-> tokens, tick |-> tick, done |-> TRUE]
  ELSE IF tokens[tick.index].chain = "solana"
    THEN [tokens |-> tokens, tick |-> tick, done |-> FALSE]
  ELSE updateProfitLoss(
         [tokens EXCEPT ![tick.index] = Revalue(tokens[tick.index], BscMockPrice)],
         [tick EXCEPT !.index = tick.index + 1, !.priced = tick.priced \cup {tick.index}])

\* The tick goes on from where r leaves it, or ends with displayProfitSummary.
TrackContinue(bag, r) ==
  /\ purchasedTokens' = r.tokens
  /\ trackTicks' = IF r.done THEN bag ELSE bag (+) SetToBag({r.tick})

TrackerInit ==
  /\ rin = NoInput
  /\ call = NoCall
  /\ config = [autoBuyEnabled |-> TRUE, webhookUrl |-> FALSE]
  /\ MonitorInit
  /\ DetectorIdle
  /\ MainIdle

\* A successful buyToken of the scheduler: addPurchase.
TrackerAddPurchase ==
  /\ Len(purchasedTokens) < MaxPositions
  /\ \E chain \in Chains : \E address \in ChainAddrs(chain) :
       \E buyResult \in BuyResults[chain][address] :
         /\ buyResult.success
         /\ purchasedTokens' = addPurchase(purchasedTokens, TokenInfo(chain, address, buyResult))
  /\ isTracking' = TRUE
  /\ trackingInterval' = TRUE
  /\ trackingTimers' = startTracking(isTracking, trackingTimers)
  /\ UNCHANGED <<routerVars, detectorVars, proc, config, schedVars, processedTweets, texts,
                 abandoned, threw, tasks, countVars, trackTicks, lastPrice>>

\* The setInterval callback of the tracker: updateProfitLoss begins.
TrackerTimerFire ==
  /\ trackingTimers > 0
  /\ TrackTicksInFlight < MaxTrackTicks
  /\ TrackContinue(trackTicks, updateProfitLoss(purchasedTokens, TrackTick(1)))
  /\ UNCHANGED <<routerVars, detectorVars, proc, config, schedVars, processedTweets, texts,
                 abandoned, threw, tasks, countVars, isTracking, trackingInterval, trackingTimers, lastPrice>>

\* getSolanaTokenPrice resolves for the position the tick is at: a price, or
\* null after an error or a response that is not ok.
PriceReturns(tick) ==
  /\ \E price \in Prices \cup {NoPrice} :
       LET tokens == [purchasedTokens EXCEPT
                        ![tick.index] = Revalue(purchasedTokens[tick.index], price)]
           next == [tick EXCEPT
                      !.index = tick.index + 1,
                      !.unpriced = IF price = NoPrice THEN tick.unpriced \cup {tick.index}
                                   ELSE tick.unpriced,
                      !.priced = IF price = NoPrice THEN tick.priced
                                 ELSE tick.priced \cup {tick.index}]
       IN /\ lastPrice' = [index |-> tick.index, price |-> price]
          /\ TrackContinue(trackTicks (-) SetToBag({tick}), updateProfitLoss(tokens, next))
  /\ UNCHANGED <<routerVars, detectorVars, proc, config, schedVars, processedTweets, texts,
                 abandoned, threw, tasks, countVars, isTracking, trackingInterval, trackingTimers>>

\* stopTracking, called by stopMonitoring.
TrackerStop ==
  /\ isTracking' = FALSE
  /\ trackingInterval' = FALSE
  /\ trackingTimers' = stopTracking(trackingInterval, trackingTimers)
  /\ UNCHANGED <<routerVars, detectorVars, proc, config, schedVars, processedTweets, texts,
                 abandoned, threw, tasks, countVars, purchasedTokens, trackTicks, lastPrice>>

TrackerNext ==
  \/ TrackerAddPurchase
  \/ TrackerTimerFire
  \/ \E tick \in BagToSet(trackTicks) : PriceReturns(tick)
  \/ TrackerStop

SpecTracker == TrackerInit /\ [][TrackerNext]_vars

\* ------------------------------------------- the detector, called directly
\* Texts of up to MaxWords words.
DetectorTexts == UNION {[1..n -> Words] : n \in 0..MaxWords}

DetectorInit ==
  /\ rin = NoInput
  /\ call = NoCall
  /\ config = [autoBuyEnabled |-> FALSE, webhookUrl |-> FALSE]
  /\ MonitorInit
  /\ detectorText \in DetectorTexts
  /\ detectorResult = NotAnalyzed
  /\ MainIdle

DetectorAnalyze ==
  /\ ~detectorResult.done
  /\ detectorResult' = [done |-> TRUE, value |-> analyzeTweet(detectorText)]
  /\ UNCHANGED <<routerVars, monitorVars, detectorText>>

DetectorNext == DetectorAnalyze

SpecDetector == DetectorInit /\ [][DetectorNext]_vars

\* ================================================================== main
\* The process from its launch to its exit.  The environment is what the
\* run finds: which settings are there, whether the wallets can be derived,
\* how the login and the profile lookup end.
MainEnvs ==
  [twitterUsername : BOOLEAN, twitterPassword : BOOLEAN, autoBuyEnabled : BOOLEAN,
   solanaMnemonic : BOOLEAN, bscMnemonic : BOOLEAN, walletsDerive : BOOLEAN,
   login : BOOLEAN, profile : BOOLEAN]

\* config.targetUsername falls back to a fixed name: it is never missing.
targetUsername == TRUE

\* Mutant: the mnemonics are not looked at.
validateConfig_IgnoresMnemonics(env) ==
  /\ env.twitterUsername
  /\ env.twitterPassword
  /\ targetUsername

\* validateConfig: no error was collected.
validateConfig(env) ==
  /\ env.twitterUsername
  /\ env.twitterPassword
  /\ targetUsername
  /\ env.autoBuyEnabled => env.solanaMnemonic /\ env.bscMnemonic

\* new TwitterMonitor(config) throws when a buyer it creates cannot derive
\* its wallet.
ConstructorThrows(env) ==
  /\ env.autoBuyEnabled
  /\ env.solanaMnemonic \/ env.bscMnemonic
  /\ ~env.walletsDerive

\* initialize: true when the login and the profile lookup both succeed;
\* every failure is caught and gives false.
initialize(env) == env.login /\ env.profile

\* Exit statuses: process.exit(code), and a signal no handler takes.
Signals == {"SIGINT", "SIGTERM"}
KilledBy(signal) == IF signal = "SIGINT" THEN 130 ELSE 143

Launched(env) ==
  [pc |-> "main", env |-> env, exitCode |-> -1, cause |-> "", started |-> FALSE,
   stopped |-> FALSE]
Exited(p, code, cause) == [p EXCEPT !.pc = "exited", !.exitCode = code, !.cause = cause]

MainInit ==
  /\ rin = NoInput
  /\ call = NoCall
  /\ \E env \in MainEnvs :
       /\ proc = Launched(env)
       /\ config = [autoBuyEnabled |-> env.autoBuyEnabled, webhookUrl |-> FALSE]
  /\ MonitorInit
  /\ DetectorIdle

\* main up to its first await: validateConfig, the constructor, the call of
\* initialize.  A throw of the constructor rejects main's promise, and the
\* catch of the last lines exits.
MainBegin ==
  /\ proc.pc = "main"
  /\ proc' = IF ~validateConfig(proc.env) THEN Exited(proc, 1, "config")
             ELSE IF ConstructorThrows(proc.env) THEN Exited(proc, 1, "fatal")
             ELSE [proc EXCEPT !.pc = "initialize"]
  /\ UNCHANGED <<routerVars, tickVars, detectorVars, monitorState>>

\* initialize has returned: exit on false; otherwise the two signal handlers
\* and startMonitoring up to its first await.
MainInitialized ==
  /\ proc.pc = "initialize"
  /\ \/ /\ ~initialize(proc.env)
        /\ proc' = Exited(proc, 1, "initialize")
        /\ UNCHANGED monitorState
     \/ /\ initialize(proc.env)
        /\ proc' = [proc EXCEPT !.pc = "monitoring", !.started = TRUE]
        /\ MonitorStarts
  /\ UNCHANGED <<routerVars, tickVars, detectorVars>>

\* A signal while no handler is registered: the default disposition ends
\* the process.
MainKilled ==
  /\ proc.pc = "initialize"
  /\ \E signal \in Signals : proc' = Exited(proc, KilledBy(signal), "killed")
  /\ UNCHANGED <<routerVars, tickVars, detectorVars, monitorState>>

\* The SIGINT and SIGTERM handlers: stopMonitoring, process.exit(0).
MainSignal ==
  /\ proc.pc = "monitoring"
  /\ \E signal \in Signals :
       proc' = Exited([proc EXCEPT !.stopped = TRUE], 0, signal)
  /\ MonitorStops
  /\ UNCHANGED <<routerVars, tickVars, detectorVars>>

\* Ctrl+C read as a key (stdin is in raw mode): stopMonitoring,
\* process.exit() without a code, which is 0.
MainCtrlC ==
  /\ proc.pc = "monitoring"
  /\ proc' = Exited([proc EXCEPT !.stopped = TRUE], 0, "Ctrl+C")
  /\ MonitorStops
  /\ UNCHANGED <<routerVars, tickVars, detectorVars>>

MainNext ==
  \/ MainBegin
  \/ MainInitialized
  \/ MainKilled
  \/ MainSignal
  \/ MainCtrlC

SpecMain == MainInit /\ [][MainNext]_vars


\* ================================================== Venue Router claims
\* The venue orders and the venue a platform name stands for, as the
\* claims state them.
ClaimedBuyOrder(chain) ==
  IF chain = "solana" THEN <<"Pump.fun", "Meteora", "Raydium">>
  ELSE <<"Four.meme", "PancakeSwap">>
ClaimedSellOrder(chain) ==
  IF chain = "solana" THEN <<"Meteora", "Raydium", "Pump.fun">>
  ELSE <<"Four.meme", "PancakeSwap">>
VenueOfPlatform(platform) ==
  IF platform \in {"Meteora DLMM", "Meteora Dynamic AMM"} THEN "Meteora" ELSE platform
NotAvailableError(chain) ==
  IF chain = "solana" THEN "Token not found on supported DEXs"
  ELSE "Token not available on supported platforms"

\* What the venues of the call's chain answer to a probe, by position.
EnvProbes ==
  IF rin.chain = "solana" THEN <<rin.env.probe1, rin.env.probe2, rin.env.probe3>>
  ELSE <<rin.env.probe1, rin.env.probe2>>
\* The call got as far as probing: address, balance and contract were fine.
PassedGates ==
  /\ rin.env.balanceOk
  /\ rin.env.balance10 >= 10
  /\ rin.chain = "bsc" => MatchesBscAddress(rin.address) /\ rin.env.tokenInfo
BuyDone == call.op = "buy"
SellDone == call.op = "sell"
FirstAvailable ==
  CHOOSE i \in 1..Len(EnvProbes) :
    /\ EnvProbes[i] = "available"
    /\ \A j \in 1..(i - 1) : EnvProbes[j] # "available"

C5_ExecFailureTerminal ==
  (BuyDone /\ Len(call.executed) >= 1 /\ call.executed[1].outcome # "ok") =>
    /\ ~call.result.success
    /\ call.result.error = ExecErrorMessage(call.executed[1].outcome)
    /\ Len(call.executed) = 1
    /\ call.probed[Len(call.probed)].venue = call.executed[1].venue
    /\ Len(call.probed) = FirstAvailable
C5_Witness ==
  /\ BuyDone
  /\ EnvProbes[1] = "available"
  /\ EnvProbes[2] = "available"
  /\ Len(call.executed) = 1
  /\ call.executed[1].outcome = "reverted"
  /\ Len(call.probed) = 1
  /\ call.result.error = "Transaction failed"

\* C6 as stated: once a sale attempt on a venue has begun and failed, the
\* liquidate call fails with that error and no other venue is attempted.
C6_SellFailureTerminal ==
  (SellDone /\ call.executed[1].outcome \in {"reverted", "error"}) =>
    /\ Len(call.executed) = 1
    /\ ~call.result.success
    /\ call.result.error = ExecErrorMessage(call.executed[1].outcome)

\* C6 amended: liquidate attempts the venues in the chain's sell order, a
\* failed attempt is followed by an attempt on the next venue, the first
\* successful attempt is the result, and when every venue failed the result
\* is the failure "No compatible DEX found for selling".
C6_SellFallsThrough ==
  SellDone =>
    LET order == ClaimedSellOrder(call.chain)
        n == Len(call.executed)
    IN
    /\ n \in 1..Len(order)
    /\ \A i \in 1..n : call.executed[i].venue = order[i]
    /\ \A i \in 1..(n - 1) : call.executed[i].outcome # "ok"
    /\ call.result.success <=> call.executed[n].outcome = "ok"
    /\ call.result.success => VenueOfPlatform(call.result.platform) = order[n]
    /\ ~call.result.success =>
         /\ n = Len(order)
         /\ call.result.error = "No compatible DEX found for selling"
C6_Witness ==
  /\ SellDone
  /\ call.chain = "bsc"
  /\ call.executed = <<Exec("Four.meme", 1, "reverted"), Exec("PancakeSwap", 1, "ok")>>
  /\ call.result.success
  /\ call.result.platform = "PancakeSwap"

\* C7: a probe that throws or reports unavailable eliminates only that
\* venue: the next venue in order is probed, and the call succeeds when a
\* later venue is available and its execute succeeds.
C7_ProbeFailureSkips ==
  (BuyDone /\ PassedGates) =>
    LET order == ClaimedBuyOrder(call.chain) IN
    /\ Len(call.probed) >= 1
    /\ \A i \in 1..Len(call.probed) :
         (call.probed[i].outcome # "available" /\ i < Len(order)) =>
           /\ Len(call.probed) > i
           /\ call.probed[i + 1].venue = order[i + 1]
    /\ ((\E i \in 1..Len(order) : EnvProbes[i] = "available") /\ rin.env.exec = "ok") =>
         call.result.success
    /\ ~call.result.success =>
         call.result.error \in
           {NotAvailableError(call.chain)} \cup {ExecErrorMessage(o) : o \in ExecOutcomes \ {"ok"}}
    /\ (~call.result.success /\ call.executed = <<>>) =>
         call.result.error = NotAvailableError(call.chain)
C7_Witness ==
  /\ BuyDone
  /\ call.chain = "solana"
  /\ call.probed = <<Probe("Pump.fun", "throws"), Probe("Meteora", "available")>>
  /\ call.result.success

\* C8: when no venue of the chain reports availability, acquire returns a
\* failure with the not-available error and execute is called on no venue.
C8_ExhaustionSpendsNothing ==
  (BuyDone /\ PassedGates /\ \A i \in 1..Len(EnvProbes) : EnvProbes[i] # "available") =>
    /\ ~call.result.success
    /\ call.result.error = NotAvailableError(call.chain)
    /\ call.executed = <<>>
    /\ Len(call.probed) = Len(ClaimedBuyOrder(call.chain))
C8_Witness ==
  /\ BuyDone
  /\ call.chain = "bsc"
  /\ PassedGates
  /\ EnvProbes = <<"unavailable", "throws">>
  /\ call.result.error = "Token not available on supported platforms"

\* C9: the amount handed to execute is the integer floor of the balance
\* read by the call (3.7 gives 3); a floor below 1 gives the failure
\* "Insufficient balance" with no venue probed and no execute.
C9_BudgetFloor ==
  BuyDone =>
    /\ call.balance10 # -1 => call.balance10 = rin.env.balance10
    /\ \A i \in 1..Len(call.executed) :
         /\ call.balance10 # -1
         /\ call.executed[i].amount * 10 <= call.balance10
         /\ call.balance10 < (call.executed[i].amount + 1) * 10
    /\ (call.balance10 # -1 /\ call.balance10 < 10) =>
         /\ ~call.result.success
         /\ call.result.error = "Insufficient balance"
         /\ call.probed = <<>>
         /\ call.executed = <<>>
    /\ call.result.success => call.result.amount = call.executed[1].amount
C9_Witness ==
  /\ BuyDone
  /\ call.balance10 = 37
  /\ Len(call.executed) = 1
  /\ call.executed[1].amount = 3
  /\ call.result.success
  /\ call.result.amount = 3

\* ------------------------------------------------- the monitor's properties
Ticks == {t \in Active : IsTick(t)}
\* Number of checkForNewTweets invocations that have begun and not finished.
TicksInProgress == BagCardinality([t \in Ticks |-> tasks[t]])
\* Number of buyToken / sellAllTokensToSOL calls made and not yet returned.
Trading == {t \in Active : t.pc \in {"buy", "selling"}}
TradesInFlight == BagCardinality([t \in Trading |-> tasks[t]])

IndexOf(seq, x) == CHOOSE i \in 1..Len(seq) : seq[i] = x
HasCrypto(p) == analyzeTweet(texts[p]).hasCryptoContent
\* Tick t has gone past post p of its batch.
Passed(t, p) == p \in Elems(t.fetched) /\ p \notin Elems(t.rest) /\ t.cur # p

\* C1: every post is alerted at most once, each of its addresses is
\* dispatched to buyToken at most once and its webhook is sent at most once,
\* however the ticks interleave; a post that was alerted is in the ledger.
C1_AtMostOnce ==
  \A p \in PostIds :
    /\ alerted[p] <= 1
    /\ webhooked[p] <= 1
    /\ \A a \in AllAddrs : dispatched[p][a] <= 1
    /\ alerted[p] = 1 => p \in processedTweets
\* Two ticks in progress fetched the same post with crypto content: one is
\* suspended in its buyToken call for it, the other went past it without an
\* alert and is working on a later post.
C1_Witness ==
  \E t \in Ticks, u \in Ticks :
    /\ t # u
    /\ t.pc = "buy"
    /\ u.pc = "buy"
    /\ HasCrypto(t.cur)
    /\ alerted[t.cur] = 1
    /\ Passed(u, t.cur)
    /\ \A i \in 1..Len(u.events) : u.events[i].post # t.cur

\* C2: at most one tick of checkForNewTweets is in progress at any time.
C2_NoOverlappingTicks == TicksInProgress <= 1

\* C3: at most one buyToken or sellAllTokensToSOL call is in flight at any
\* time.
C3_NoConcurrentTrades == TradesInFlight <= 1

\* C10: within one tick, alerts and buyToken dispatches occur oldest post
\* first: an event for a post never follows an event for a post that the
\* fetch returned before it (the fetch returns the newest first).
C10_OldestFirst ==
  \A t \in Ticks :
    \A i \in 1..Len(t.events), j \in 1..Len(t.events) :
      i < j => IndexOf(t.fetched, t.events[i].post) >= IndexOf(t.fetched, t.events[j].post)
\* A tick fetched two posts, the newer one first, and has alerted and
\* dispatched for the older one and then for the newer one.
C10_Witness ==
  \E t \in Ticks :
    /\ Len(t.fetched) = 2
    /\ t.fetched[1] > t.fetched[2]
    /\ Len(t.events) >= 4
    /\ t.events[1] = Event("alert", t.fetched[2], "")
    /\ t.events[2].kind = "buy"
    /\ t.events[2].post = t.fetched[2]
    /\ t.events[Len(t.events)].kind = "buy"
    /\ t.events[Len(t.events)].post = t.fetched[1]

\* C11: an error raised for one post does not keep the tick from processing
\* the posts that follow it in the batch: no tick ends with a post of its
\* batch that its loop never reached and that is not in the ledger.
C11_NoPostAbandoned == abandoned = {}

\* C12: while the monitor is running, no step starts it again: no
\* startMonitoring call begins another immediate tick, registers another
\* key listener or counts as a start, and a step other than stopMonitoring
\* leaves it running.
StartTicks(bag) == BagCardinality([t \in {x \in BagToSet(bag) : x.kind = "start"} |-> bag[t]])
C12_StartWhileRunningIsNoOp ==
  [][isRunning =>
       /\ starts' = starts
       /\ keyListeners' = keyListeners
       /\ StartTicks(tasks') <= StartTicks(tasks)
       /\ (~isRunning') => (intervalId' = 0 /\ ~isTracking')]_vars
\* The monitor is running and the immediate tick of its start is still
\* awaited: the state in which a second startMonitoring only warns.
C12_Witness ==
  /\ isRunning
  /\ timers = {}
  /\ \E t \in Active : t.kind = "start" /\ t.start = starts /\ t.pc = "buy"

\* C13: whenever the monitor is stopped, no interval timer of it is alive
\* and intervalId is unset, at whatever point of a start or tick the stop
\* arrived.
C13_StoppedHasNoTimer == ~isRunning => (timers = {} /\ intervalId = 0)

\* C14: stopMonitoring leaves every activation in flight as it is, and a
\* tick in flight in a stopped monitor goes on as in a running one: after
\* a buyToken it dispatches the next address of the post or stays in flight
\* for the webhook and the delay, after the webhook it counts as sent and
\* the delay follows, and after the delay the tick only ends when every
\* remaining post of its batch is in the ledger (or one of them threw).
Moved(t) == CopiesIn(t, tasks') < CopiesIn(t, tasks)
GoesOn(t) ==
  /\ t.pc = "buy" =>
       /\ TicksInProgress' = TicksInProgress
       /\ Len(t.solQ) + Len(t.bscQ) > 1 =>
            \E a \in AllAddrs : dispatched'[t.cur][a] = dispatched[t.cur][a] + 1
  /\ t.pc = "webhook" =>
       /\ TicksInProgress' = TicksInProgress
       /\ webhooked'[t.cur] = webhooked[t.cur] + 1
  /\ (t.pc = "delay" /\ TicksInProgress' < TicksInProgress) =>
       \/ Elems(t.rest) \subseteq processedTweets'
       \/ \E q \in Elems(t.rest) : analyzeTweetThrows(texts[q])
C14_StopSparesTicksInFlight ==
  [][/\ (isRunning /\ ~isRunning') =>
          /\ tasks' = tasks
          /\ processedTweets' = processedTweets
          /\ <<alerted, dispatched, webhooked>>' = <<alerted, dispatched, webhooked>>
     /\ ~isRunning => \A t \in Ticks : Moved(t) => GoesOn(t)]_vars
\* The monitor is stopped while a tick is in its first buyToken call for a
\* post, with a second address of the post and a later post still to come.
C14_Witness ==
  /\ ~isRunning
  /\ \E t \in Ticks :
       /\ t.pc = "buy"
       /\ Len(t.solQ) + Len(t.bscQ) = 2
       /\ t.rest # <<>>

\* C15: a tick whose fetch failed with an authentication error makes one
\* re-login attempt and ends when that attempt resolves, whatever its
\* answer: it has fetched and processed nothing, the ledger and the counters
\* are as before, the monitor's running flag is untouched, and the timers
\* are as before (but for the timer startMonitoring arms after its tick).
C15_ReloginEndsTick ==
  [][\A t \in Ticks :
       (t.pc = "relogin" /\ Moved(t)) =>
         /\ t.fetched = <<>> /\ t.events = <<>>
         /\ TicksInProgress' = TicksInProgress - 1
         /\ processedTweets' = processedTweets
         /\ <<alerted, dispatched, webhooked>>' = <<alerted, dispatched, webhooked>>
         /\ isRunning' = isRunning
         /\ timers \subseteq timers'
         /\ t.kind = "timer" => (timers' = timers /\ intervalId' = intervalId)]_vars
\* A timer tick of the running monitor is in its re-login attempt while the
\* feed holds a post that is not in the ledger.
C15_Witness ==
  /\ isRunning
  /\ timers # {}
  /\ \E p \in 1..Len(texts) : p \notin processedTweets
  /\ \E t \in Ticks : t.kind = "timer" /\ t.pc = "relogin"

\* C16: with auto-buy disabled no buyToken call is ever made and no
\* position exists, and the posts alerted, once each, are exactly the posts
\* in the ledger whose text holds an address or a keyword.
HasSignal(text) ==
  \E i \in 1..Len(text) :
    text[i] \in SolanaAddrs \cup Keywords \/ MatchesBscAddress(text[i])
C16_AlertOnlyWithoutAutoBuy ==
  ~config.autoBuyEnabled =>
    /\ \A p \in PostIds : \A a \in AllAddrs : dispatched[p][a] = 0
    /\ \A t \in Active : t.pc \notin {"buy", "selling"}
    /\ purchasedTokens = <<>>
    /\ \A p \in 1..Len(texts) :
         alerted[p] = IF p \in processedTweets /\ HasSignal(texts[p]) THEN 1 ELSE 0
\* Auto-buy is disabled and a tick fetched two posts, one without a signal
\* and one with a Solana address: one alert, for the latter, and no call.
C16_Witness ==
  /\ ~config.autoBuyEnabled
  /\ \E t \in Ticks :
       /\ Len(t.fetched) = 2
       /\ \E p \in Elems(t.fetched), q \in Elems(t.fetched) :
            /\ ~HasSignal(texts[q]) /\ q \in processedTweets /\ alerted[q] = 0
            /\ "S1" \in Elems(texts[p])
            /\ t.events = <<Event("alert", p, "")>>
            /\ alerted[p] = 1

\* C17: a liquidate command of the operator ("s" for Solana, "b" for BSC)
\* calls the router's liquidate for each position that is open on that chain
\* when the command is given: once the routine has returned, sellSingleToken
\* has been called for the address of every such position.
C17_LiquidatesEveryOpenPosition ==
  (lastCall.op = "sell" /\ lastCall.success) => lastCall.sold = lastCall.open

\* A step in which a liquidation routine returns to the monitor; lastCall'
\* tells which and how.
SellReturns ==
  /\ lastCall'.op = "sell"
  /\ \/ \E t \in Active : t.kind = "sellSolana" /\ Moved(t)
     \/ lastCall' # lastCall
     \/ lastCall'.chain = "bsc" /\ Len(purchasedTokens') < Len(purchasedTokens)

\* C18: when the liquidation routine of a chain completes, no position of
\* that chain is left in the open set, whether each sale succeeded or not,
\* and the positions of the other chain are what they were, in their order.
C18_LiquidationClearsItsChainOnly ==
  [][(SellReturns /\ lastCall'.success) =>
       /\ OpenOn(purchasedTokens', lastCall'.chain) = {}
       /\ purchasedTokens' =
            SelectSeq(purchasedTokens, LAMBDA token : token.chain # lastCall'.chain)]_vars

\* The Solana routine has completed with the sale of S1 failed: the S1
\* position is gone and the BSC position is still open.
C18_Witness ==
  /\ lastCall = SellCall("solana", TRUE, {"S1"}, {"S1"}, {"S1"})
  /\ OpenOn(purchasedTokens, "solana") = {}
  /\ OpenOn(purchasedTokens, "bsc") = {"B1"}

\* C19: the scheduler side writes the open set only by appending a position.
\* Every step of Spec is a step of the TwitterMonitor (a tick, a key handler,
\* start, stop), so each of them leaves purchasedTokens as it is or appends
\* one position to it; removing positions is left to the ProfitTracker.
C19_SchedulerOnlyAppends ==
  [][\/ purchasedTokens' = purchasedTokens
     \/ /\ Len(purchasedTokens') = Len(purchasedTokens) + 1
        /\ SubSeq(purchasedTokens', 1, Len(purchasedTokens)) = purchasedTokens]_vars

\* A step in which buyToken returns to a tick; lastCall' tells for which
\* address and how.
BuyReturnsToTick ==
  /\ lastCall'.op = "buy"
  /\ \E t \in Ticks : t.pc = "buy" /\ Moved(t)

\* A position as a successful buyToken result for its chain and address
\* gives it.
FromSuccessfulBuy(token) ==
  \E result \in BuyResults[token.chain][token.tokenAddress] :
    /\ result.success
    /\ token.platform = result.platform
    /\ token.amount = result.amount
    /\ \E p \in PostIds : dispatched[p][token.tokenAddress] >= 1

\* C20: every position of the open set comes from a buyToken call that
\* returned success; a buyToken call of a tick that returns success adds
\* exactly one position, for its chain and address, at the end of the set;
\* one that fails adds none; and nothing else makes the set grow.
C20_OnePositionPerSuccessfulBuy ==
  /\ [](\A i \in 1..Len(purchasedTokens) : FromSuccessfulBuy(purchasedTokens[i]))
  /\ [][/\ (BuyReturnsToTick /\ lastCall'.success) =>
             /\ Len(purchasedTokens') = Len(purchasedTokens) + 1
             /\ SubSeq(purchasedTokens', 1, Len(purchasedTokens)) = purchasedTokens
             /\ purchasedTokens'[Len(purchasedTokens')].chain = lastCall'.chain
             /\ purchasedTokens'[Len(purchasedTokens')].tokenAddress = lastCall'.address
        /\ (BuyReturnsToTick /\ ~lastCall'.success) => purchasedTokens' = purchasedTokens
        /\ Len(purchasedTokens') > Len(purchasedTokens) =>
             (BuyReturnsToTick /\ lastCall'.success)]_vars

\* Of one post, the buy of S1 failed and the buy of B1 then succeeded: the one
\* position is that of B1.
C20_Witness ==
  /\ lastCall = BuyCall("bsc", "B1", TRUE)
  /\ \A p \in PostIds : dispatched[p]["S1"] = IF p = 1 THEN 1 ELSE 0
  /\ Len(purchasedTokens) = 1
  /\ purchasedTokens[1].tokenAddress = "B1"
  /\ \A t \in Active : t.kind # "sellSolana"

\* No buyToken call has been made yet, so no position has been recorded.
NoAcquireYet == \A p \in PostIds : \A a \in AllAddrs : dispatched[p][a] = 0

\* C21: the tracker's timer is not running before the first position is
\* recorded; recording a position when no timer runs starts one, recording a
\* later position starts no second one, and nothing else starts one; a
\* stopMonitoring that shuts the scheduler down, or finds the tracker
\* tracking, leaves no tracker timer.
C21_TrackerTimerLazyAndStopped ==
  /\ [](NoAcquireYet => (trackingTimers = 0 /\ ~isTracking))
  /\ [](trackingTimers = (IF isTracking THEN 1 ELSE 0))
  /\ [][/\ Len(purchasedTokens') > Len(purchasedTokens) =>
             /\ isTracking'
             /\ trackingTimers' = (IF trackingTimers = 0 THEN 1 ELSE trackingTimers)
        /\ trackingTimers' > trackingTimers =>
             (trackingTimers = 0 /\ Len(purchasedTokens') = Len(purchasedTokens) + 1)
        /\ ((isRunning /\ ~isRunning') \/ (isTracking /\ ~isTracking')) =>
             (trackingTimers' = 0 /\ ~trackingInterval' /\ ~isTracking')]_vars

\* A second position has been recorded while the tracker was tracking, and
\* one timer runs.
C21_Witness ==
  /\ Len(purchasedTokens) = 2
  /\ isTracking
  /\ trackingTimers = 1
  /\ isRunning

\* ==================================================== Position Tracker claims
\* C22: no two ticks of the tracker are in progress at once: a tick has its
\* price queries for all positions answered before the next tick begins.
C22_NoOverlappingTrackerTicks == TrackTicksInFlight <= 1

\* A step in which the price query of tracker tick `tick` is answered.
Answered(tick) == CopiesIn(tick, trackTicks') < CopiesIn(tick, trackTicks)

\* After its query for position tick.index, the tick is at the next Solana
\* position, having revalued the BSC positions in between, or it has ended
\* having revalued the BSC positions that were left.
TickGoesOn(tick) ==
  LET later == (tick.index + 1)..Len(purchasedTokens)
      solana == {j \in later : purchasedTokens[j].chain = "solana"}
      stop == IF solana = {} THEN Len(purchasedTokens) + 1
              ELSE CHOOSE j \in solana : \A k \in solana : j <= k
  IN /\ \A j \in later :
          j < stop =>
            purchasedTokens'[j].currentValue = purchasedTokens[j].tokensReceived * BscMockPrice
     /\ solana # {} =>
          \E u \in BagToSet(trackTicks') :
            /\ u.index = stop
            /\ u.unpriced \cap (1..tick.index) = tick.unpriced \cup
                 (IF lastPrice'.price = NoPrice THEN {tick.index} ELSE {})

\* C23: in a tracker tick, a position whose price query fails keeps its
\* currentValue and profitLoss, and the tick goes on to revalue the other
\* positions: every position before the one a tick is at has been visited by
\* that tick.
C23_PriceFailureIsolated ==
  /\ [](\A tick \in BagToSet(trackTicks) :
          tick.priced \cup tick.unpriced = 1..(tick.index - 1))
  /\ [][\A tick \in BagToSet(trackTicks) :
          (Answered(tick) /\ lastPrice' = [index |-> tick.index, price |-> NoPrice]) =>
            /\ purchasedTokens'[tick.index] = purchasedTokens[tick.index]
            /\ Len(purchasedTokens') = Len(purchasedTokens)
            /\ TickGoesOn(tick)]_vars

\* One tick is in flight: it got no price for the first position, which
\* keeps the value an earlier tick gave it, and is at the second.
C23_Witness ==
  /\ Len(purchasedTokens) = 2
  /\ purchasedTokens[1].currentValue # 0
  /\ TrackTicksInFlight = 1
  /\ \E tick \in BagToSet(trackTicks) : tick.index = 2 /\ tick.unpriced = {1}
  /\ lastPrice = [index |-> 1, price |-> NoPrice]

\* The quantities a successful buyToken can have delivered for a position:
\* what the venue gave in a call whose result makes this position.
QuantitiesDelivered(token) ==
  {env.tokensOut : env \in
     {e \in MonitorBuyEnvs(token.chain) :
        LET result == buyToken(token.chain, token.tokenAddress, e).result
        IN /\ result.success
           /\ TokenInfo(token.chain, token.tokenAddress, result).platform = token.platform
           /\ TokenInfo(token.chain, token.tokenAddress, result).amount = token.amount
           /\ TokenInfo(token.chain, token.tokenAddress, result).tokensReceived =
                token.tokensReceived}}

\* C24: after a tracker tick's price query for a position returned price p,
\* the position has currentValue = quantity received * p and
\* profitLoss = currentValue - cost, whatever venue the acquire went through.
C24_ValueIsQuantityTimesPrice ==
  [][\A tick \in BagToSet(trackTicks) :
       (Answered(tick) /\ lastPrice'.index = tick.index /\ lastPrice'.price # NoPrice) =>
         LET token == purchasedTokens'[tick.index]
         IN /\ \E quantity \in QuantitiesDelivered(token) :
                 token.currentValue = quantity * lastPrice'.price
            /\ token.profitLoss = token.currentValue - token.amount * Milli]_vars

\* =========================================================== Detector claims
\* What a text holds, word by word.
IsKeyword(w) ==
  \E i \in 1..Len(keywordPatterns) : MatchWord(w, keywordPatterns[i]) # <<>>
HoldsAddressOrKeyword(text) ==
  \E i \in 1..Len(text) :
    text[i] \in SolanaAddrs \/ MatchesBscAddress(text[i]) \/ IsKeyword(text[i])

\* C29: analyzeTweet sets hasCryptoContent exactly when the text holds a
\* Solana address, a BSC address or a keyword; links do not count, and a
\* text with none of them has it false.
C29_SignalIffAddressOrKeyword ==
  detectorResult.done =>
    (detectorResult.value.hasCryptoContent <=> HoldsAddressOrKeyword(detectorText))

\* A text of links only has been analyzed: the links are found, and it has no
\* crypto content.
C29_Witness ==
  /\ detectorResult.done
  /\ detectorText = <<"http", "http">>
  /\ Len(detectorResult.value.urls) = 2
  /\ ~detectorResult.value.hasCryptoContent

\* A word that is a term of the vocabulary, whatever its letter case.
IsTermUpToCase(w) == \E form \in Keywords : toLowerCase(w) = toLowerCase(form)

\* C30: keyword detection is case-insensitive for every term of the
\* vocabulary, and the keyword list has duplicates collapsed: a word that is
\* a term up to letter case is in the list, and no two entries of the list
\* are the same term up to letter case.
C30_KeywordsFoldCase ==
  detectorResult.done =>
    LET keywords == detectorResult.value.keywords IN
    /\ \A i \in 1..Len(detectorText) :
         IsTermUpToCase(detectorText[i]) =>
           \E k \in 1..Len(keywords) :
             toLowerCase(keywords[k]) = toLowerCase(detectorText[i])
    /\ \A j, k \in 1..Len(keywords) :
         j # k => toLowerCase(keywords[j]) # toLowerCase(keywords[k])

\* ======================================================= Scheduler claims, 2
\* A step in which a buyToken call is made.
AcquireStarts == \E p \in PostIds : \E a \in AllAddrs : dispatched'[p][a] > dispatched[p][a]
\* A step in which a buyToken call returns to its tick.
AcquireReturns == \E t \in Ticks : t.pc = "buy" /\ Moved(t)

\* C26: between two consecutive acquire calls of the scheduler a pacing delay
\* elapses: no buyToken call is made in the step in which the previous one
\* returns, also for two addresses of one post.
C26_DelayBetweenAcquires == [][AcquireStarts => ~AcquireReturns]_vars

\* A step in which the fetch of tick t returns zero posts: the account has
\* none, and the tick does not go on to a re-login.
FetchesNothing(t) ==
  /\ t.pc = "fetch"
  /\ Moved(t)
  /\ texts' = <<>>
  /\ CopiesIn([t EXCEPT !.pc = "relogin"], tasks') = CopiesIn([t EXCEPT !.pc = "relogin"], tasks)

\* C27: a tick whose fetch returns zero posts ends without an alert, a
\* buyToken call or a webhook, leaves the ledger as it was and leaves the
\* scheduler running or stopped as it was.
C27_EmptyFetchEndsTick ==
  [][\A t \in Ticks :
       FetchesNothing(t) =>
         /\ TicksInProgress' = TicksInProgress - 1
         /\ processedTweets' = processedTweets
         /\ <<alerted, dispatched, webhooked, lastCall>>' =
              <<alerted, dispatched, webhooked, lastCall>>
         /\ purchasedTokens' = purchasedTokens
         /\ isRunning' = isRunning]_vars

\* The tick awaited by startMonitoring has fetched nothing and ended: the
\* timer is armed, the monitor runs, nothing is in the ledger.
C27_Witness ==
  /\ texts = <<>>
  /\ isRunning
  /\ starts = 1
  /\ intervalId = 1
  /\ tasks = EmptyBag
  /\ processedTweets = {}
  /\ \A p \in PostIds : alerted[p] = 0 /\ webhooked[p] = 0

\* C28: the ledger only grows: no step (a tick, stopMonitoring, a later
\* startMonitoring, a liquidation, a re-login) takes an identifier out of
\* processedTweets.
C28_LedgerOnlyGrows == [][processedTweets \subseteq processedTweets']_vars

\* Both posts are in the ledger after the monitor was stopped and started
\* again and a liquidation has returned.
C28_Witness ==
  /\ processedTweets = {1, 2}
  /\ starts = 2
  /\ isRunning
  /\ lastCall.op = "sell"

\* ========================================================= Process claims
\* What the claim calls a failed configuration validation and a failed
\* startup, said of the environment of the run.
ConfigurationInvalid(env) ==
  \/ ~env.twitterUsername
  \/ ~env.twitterPassword
  \/ env.autoBuyEnabled /\ ~(env.solanaMnemonic /\ env.bscMnemonic)
StartupFails(env) == ~env.login \/ ~env.profile
ShutdownRequests == Signals \cup {"Ctrl+C"}
MonitoringNeverStarted ==
  ~proc.started /\ starts = 0 /\ ~isRunning /\ tasks = EmptyBag /\ keyListeners = 0

\* C25: a process that has exited, other than by a signal that found no
\* handler, has exit code 1 and never started monitoring when its
\* configuration is invalid or its startup fails; when it exited on a
\* shutdown request (SIGINT, SIGTERM, Ctrl+C) its code is 0, stopMonitoring
\* has been called and the monitor is stopped; and code 0 has no other origin.
C25_ExitCodes ==
  (proc.pc = "exited" /\ proc.cause # "killed") =>
    /\ (ConfigurationInvalid(proc.env) \/ StartupFails(proc.env)) =>
         proc.exitCode = 1 /\ MonitoringNeverStarted
    /\ proc.cause \in ShutdownRequests =>
         proc.exitCode = 0 /\ proc.stopped /\ ~isRunning /\ intervalId = 0
    /\ proc.exitCode = 0 => proc.cause \in ShutdownRequests /\ proc.stopped
    /\ proc.exitCode \in {0, 1}

\* C25 witness: the process has exited with code 0 on a shutdown request,
\* after it had started monitoring.
C25_Witness ==
  /\ proc.pc = "exited"
  /\ proc.cause \in ShutdownRequests
  /\ proc.started
  /\ proc.exitCode = 0

\* The other case of C25: an exit with code 1 at startup.
C25_StartupExit ==
  /\ proc.pc = "exited"
  /\ proc.exitCode = 1
  /\ proc.cause \in {"config", "initialize"}

\* ====================================================== Detector claims, 2
\* A word of the shape of a Solana address: 32 to 44 characters, all of the
\* base58 alphabet.
HasSolanaShape(w) ==
  /\ Len(AddrChars(w)) \in 32..44
  /\ \A i \in 1..Len(AddrChars(w)) : AddrChars(w)[i] \in Base58Chars
Listed(w, list) == \E i \in 1..Len(list) : list[i] = w

\* C31: no word of the analysed text that has the shape of a Solana address
\* and does not decode to exactly 32 bytes is among the solanaAddresses of
\* the analysis.
C31_UndecodableShapesExcluded ==
  detectorResult.done =>
    \A i \in 1..Len(detectorText) :
      LET w == detectorText[i] IN
        (HasSolanaShape(w) /\ DecodedLength(AddrChars(w)) # 32) =>
          ~Listed(w, detectorResult.value.solanaAddresses)

\* C31 witness: a text with an address and a look-alike of 44 characters has
\* been analysed, and the address alone is listed.
C31_Witness ==
  /\ detectorResult.done
  /\ Listed("Slong", detectorText)
  /\ Listed("S1", detectorText)
  /\ detectorResult.value.solanaAddresses = <<"S1">>

\* C31, the consequence for the scheduler: no look-alike is handed to
\* buyToken.
C31_LookalikeNeverBought ==
  \A p \in PostIds : \A a \in SolanaLookalikes : dispatched[p][a] = 0

\* ==================================================== Scheduler claims, 3
\* C32: at most one interval timer of the scheduler is alive at any time,
\* whatever the sequence of startMonitoring and stopMonitoring calls.
C32_AtMostOneSchedulerTimer == Cardinality(timers) <= 1

\* C33: in a monitor that is stopped and stays stopped, a tracker that is not
\* tracking is not set tracking again, and no tracker timer is created; a
\* buy that was in flight when the monitor was stopped does not restart it.
C33_StoppedTrackerStaysStopped ==
  [][(~isRunning /\ ~isRunning' /\ ~isTracking) =>
       (~isTracking' /\ trackingTimers' <= trackingTimers)]_vars

\* ===================================================== Liquidation claims
\* C34: when a liquidation routine completes, a position of its chain whose
\* token was not among the positions open when the routine started is still
\* in the open set.
C34_LiquidationKeepsLaterPositions ==
  [][(SellReturns /\ lastCall'.success) =>
       \A i \in 1..Len(purchasedTokens) :
         (/\ purchasedTokens[i].chain = lastCall'.chain
          /\ purchasedTokens[i].tokenAddress \notin lastCall'.open) =>
           \E j \in 1..Len(purchasedTokens') : purchasedTokens'[j] = purchasedTokens[i]]_vars

\* ==================================================== Scheduler claims, 4
\* The posts the account shows that are not in the ledger.
Unmarked == {q \in 1..Len(texts') : q \notin processedTweets}
Oldest(posts) == CHOOSE q \in posts : \A r \in posts : q <= r

\* C35: a post whose processing threw is in the ledger, threw once only, and
\* was never alerted, bought or sent to the webhook; the step in which it
\* throws marks it, and marks no post that comes after it in the batch; and
\* a tick whose fetch brings the ledger to grow starts with the oldest post
\* that is not in the ledger, so with a post an aborted tick has left behind.
C35_MarkedBeforeProcessing ==
  /\ [](\A p \in PostIds : threw[p] > 0 =>
          /\ p \in processedTweets
          /\ threw[p] = 1
          /\ alerted[p] = 0
          /\ webhooked[p] = 0
          /\ \A a \in AllAddrs : dispatched[p][a] = 0)
  /\ [][\A p \in PostIds : threw'[p] > threw[p] =>
          /\ p \notin processedTweets
          /\ p \in processedTweets'
          /\ \A q \in processedTweets' \ processedTweets : q <= p]_vars
  /\ [][\A t \in Active :
          (t.pc = "fetch" /\ Moved(t) /\ processedTweets' # processedTweets) =>
            Oldest(Unmarked) \in processedTweets']_vars

\* C35 witness: the processing of post 1 threw, post 2 was left behind by
\* that tick, and a later tick has alerted post 2.
C35_Witness ==
  /\ threw[1] = 1
  /\ 2 \in abandoned
  /\ 2 \in processedTweets
  /\ alerted[2] = 1

\* ================================================= Venue Router claims, 2
\* C36: the amount a buyToken call hands to a venue's execute is at most
\* the configured maximum buy amount of the chain, whatever the balance.
C36_SpendsAtMostConfiguredMaximum ==
  BuyDone =>
    \A i \in 1..Len(call.executed) : call.executed[i].amount <= maxBuyAmount(call.chain)

\* C37: a buyToken call calls execute on at most one venue, and only on a
\* venue whose probe, made in that call, reported available.
C37_OneExecuteAfterItsProbe ==
  BuyDone =>
    /\ Len(call.executed) <= 1
    /\ \A i \in 1..Len(call.executed) :
         \E j \in 1..Len(call.probed) :
           call.probed[j] = Probe(call.executed[i].venue, "available")

\* C37 witness: the Pump.fun probe reported nothing, the Meteora probe threw,
\* the Raydium probe reported a pool, and the one execute is Raydium's.
C37_Witness ==
  /\ BuyDone
  /\ call.probed = <<Probe("Pump.fun", "unavailable"), Probe("Meteora", "throws"),
                     Probe("Raydium", "available")>>
  /\ Len(call.executed) = 1
  /\ call.executed[1].venue = "Raydium"

C38_BadAddressRejected ==
  /\ BuyDone
  /\ call.address = "Bshort"
  /\ rin.env.balanceOk
  /\ call.result.error = "Invalid address format"

\* ==================================================== Scheduler claims, 5
\* Post p has a signal and its processing does not throw.
PostHasSignal(p) ==
  /\ ~analyzeTweetThrows(texts[p])
  /\ analyzeTweet(texts[p]).hasCryptoContent
Handled(p) ==
  /\ p \in processedTweets
  /\ p <= Len(texts) /\ PostHasSignal(p) => alerted[p] >= 1

\* C39: in a run in which the monitor is running from some time on, with a
\* timer that keeps firing and fetches that keep giving posts, every post
\* the account shows is eventually in the ledger, and alerted when it has a
\* signal and its processing does not throw.
C39_EveryPostEventuallyHandled ==
  \A p \in PostIds :
    (<>[]isRunning) => [](p <= Len(texts) => <>Handled(p))

\* C39 witness: a tick of the interval timer has alerted post 2 in a running
\* monitor; post 1 is in the ledger.
C39_Witness ==
  /\ isRunning
  /\ 1 \in processedTweets
  /\ alerted[2] = 1
  /\ \E t \in Ticks : t.kind = "timer" /\ t.cur = 2 /\ t.pc = "delay"

====
